---- MODULE Spec2Model ----
(***************************************************************************)
(* A model of the no-fed bridge (Nostr <-> ActivityPub): the relay          *)
(* aggregator NostrService.QuerySync, the identity bridge                   *)
(* GetNostrKeysByActor, the event service (cache first, network second),    *)
(* the inbox handler and the persistence layer they share.                  *)
(*                                                                         *)
(* Strings of the program are sequences of tokens: "/" , ":" , "@" and "%"  *)
(* are tokens of their own, so that strings.Split, fmt.Sprintf and LIKE are *)
(* computed, not assumed.  The empty Go string is << >>.                    *)
(***************************************************************************)
EXTENDS Integers, Sequences, FiniteSets, Bags, TLC

VARIABLES
  keys,               \* table keys: set of rows [pub_actor_url, nostr_privkey, nostr_pubkey]
  followers,          \* table followers: bag of rows <<nostr_pubkey, pub_actor_url>>
  notes,              \* table notes: set of rows [nostr_event_id, pub_note_url]
  cache,              \* table cache: set of rows [key, value, time, expiration]
  clock,              \* wall clock of the database (now()), in days
  pending,            \* goroutines started with "go func()" that have not run yet
  relayUp,            \* the network: whether RelayConnect to a peer succeeds
  relayStore,         \* the network: the events a peer holds, in the order it sends them
  qpc,                \* QuerySync: position of the one call in flight
  qcaller,            \* QuerySync: the operation that called it, with its argument
  qfilter,            \* QuerySync: parameter filter
  qmax,               \* QuerySync: parameter max
  connectedRelays,    \* QuerySync: local map connectedRelays (its key set)
  failedConnections,  \* QuerySync: local map failedConnections (url -> count)
  events,             \* QuerySync: the buffered channel events (its buffer)
  chanClosed,         \* QuerySync: whether close(events) has run
  unique,             \* QuerySync: local map unique (its key set)
  filteredEvents,     \* QuerySync: local slice filteredEvents
  elapsed,            \* QuerySync: seconds since ctx was created
  queries,            \* number of QuerySync calls issued by the operation in progress
  resp,               \* the outcome of the last operation that ended
  keylog              \* every (actor, privkey, pubkey) a GetNostrKeysByActor call returned

dbvars == <<keys, followers, notes, cache, clock, pending>>
netvars == <<relayUp, relayStore>>
qvars == <<qpc, qcaller, qfilter, qmax, connectedRelays, failedConnections,
           events, chanClosed, unique, filteredEvents, elapsed>>
vars == <<keys, followers, notes, cache, clock, pending, relayUp, relayStore,
          qpc, qcaller, qfilter, qmax, connectedRelays, failedConnections,
          events, chanClosed, unique, filteredEvents, elapsed, queries, resp, keylog>>

----------------------------------------------------------------------------
(* Bounds of the model and constants of the program.                        *)

\* len(n.peers): the program lists 39 relays; the model keeps this many.
NumPeers == 3
\* the largest max a modelled QuerySync call is given directly
MaxMax == 3

\* nostr.go:238  for len(connectedRelays) < 5
MaxRelays == 5
\* nostr.go:230  context.WithTimeout(context.Background(), 5*time.Second)
OverallTimeout == 5
\* nostr.go:252  context.WithTimeout(ctx, 2*time.Second)
AttemptTimeout == 2

Peers == 1..NumPeers

Min(a, b) == IF a < b THEN a ELSE b

----------------------------------------------------------------------------
(* Events of the event network.                                             *)

\* nostr.Event.GetID: the id is the digest of the serialized other fields.
EventID(pubkey, created_at, kind, tags, content) ==
  <<"sha256" \o ToString(<<pubkey, created_at, kind, tags, content>>)>>

MkEvent(pubkey, created_at, kind, tags, content) ==
  [id |-> EventID(pubkey, created_at, kind, tags, content), pubkey |-> pubkey,
   created_at |-> created_at, kind |-> kind, tags |-> tags, content |-> content]

\* The zero value of nostr.Event: what a receive from a closed, drained channel yields.
ZeroEvent ==
  [id |-> <<>>, pubkey |-> <<>>, created_at |-> 0, kind |-> 0, tags |-> <<>>,
   content |-> <<>>]

\* Public keys of identities native to the event network.
P1 == <<"p1">>
P2 == <<"p2">>

\* Notes, a profile and a contact list that relays may hold.
N1 == MkEvent(P1, 1, 1, <<>>, <<"hello">>)
N2 == MkEvent(P1, 2, 1, <<>>, <<"world">>)
N3 == MkEvent(P2, 3, 1, <<>>, <<"again">>)

\* nostr.Filter with the fields the program sets (IDs, Authors, Kinds, Since).
MkFilter(ids, authors, kinds, hasSince, since) ==
  [IDs |-> ids, Authors |-> authors, Kinds |-> kinds, hasSince |-> hasSince,
   Since |-> since]

AnyFilter == MkFilter({}, {}, {}, FALSE, 0)

\* What a relay answers to a filter (NIP-01: an empty field does not restrict).
Matches(f, e) ==
  /\ f.IDs = {} \/ e.id \in f.IDs
  /\ f.Authors = {} \/ e.pubkey \in f.Authors
  /\ f.Kinds = {} \/ e.kind \in f.Kinds
  /\ ~f.hasSince \/ e.created_at >= f.Since

RECURSIVE SelectMatching(_, _)
SelectMatching(f, s) ==
  IF s = <<>> THEN <<>>
  ELSE IF Matches(f, Head(s)) THEN <<Head(s)>> \o SelectMatching(f, Tail(s))
       ELSE SelectMatching(f, Tail(s))

\* relay.QuerySync(queryContext, filter) of a connected peer.
RelayQuerySync(r, f) == SelectMatching(f, relayStore[r])

----------------------------------------------------------------------------
(* Strings.                                                                 *)

\* strings.HasSuffix(s, suffix)
HasSuffix(s, suffix) ==
  /\ Len(suffix) <= Len(s)
  /\ SubSeq(s, Len(s) - Len(suffix) + 1, Len(s)) = suffix

\* objectParts := strings.Split(s, "/"); objectParts[len(objectParts)-1]
LastSegment(s) ==
  LET slashes == {i \in 1..Len(s) : s[i] = "/"}
  IN IF slashes = {} THEN s
     ELSE SubSeq(s, (CHOOSE i \in slashes : \A j \in slashes : j <= i) + 1, Len(s))

\* settings.ServiceURL and settings.RelayURL (main.go:42)
ServiceURL == <<"http", "svc">>
RelayURL == <<"ws", "svc">>

\* Federation actors, and the well-known audience addresses.
Alice == <<"fed", "/", "alice">>
Bob == <<"fed", "/", "bob">>
Public == <<"https:", "/", "/", "www.w3.org", "/", "ns", "/", "activitystreams#Public">>
AliceFollowers == Alice \o <<"/", "followers">>

----------------------------------------------------------------------------
(* The identity bridge: NostrService.GetNostrKeysByActor (nostr.go:86-99).  *)

\* n.settings.PrivateKey.D.Bytes(): the server's private key material
ServerSecret == <<"D">>

\* The digest an HMAC-SHA256 keyed with key holds after data was written to it.
HmacDigest(key, data) == "hmac" \o ToString(<<key, data>>)

\* hmac.New(sha256.New, key).Sum(b): Sum appends the digest of what was WRITTEN to
\* the hash to b; line 87 writes nothing and passes the actor as b.
HmacSum(key, b) == b \o <<HmacDigest(key, <<>>)>>

\* hex.EncodeToString, byte by byte
HexEncode(b) == [i \in 1..Len(b) |-> "hex" \o b[i]]

\* A private key drawn afresh at every call instead of derived from the actor.
DerivePrivKey_Fresh(actor) ==
  HexEncode(actor \o <<"rnd" \o ToString(Cardinality(keys))>>)

\* lines 87-88
DerivePrivKey(actor) == HexEncode(HmacSum(ServerSecret, actor))

\* line 89: nostr.GetPublicKey, the public key of a private key
GetPublicKey(privkey) == <<"pub" \o ToString(privkey)>>

KeyRow(actor, privkey, pubkey) ==
  [pub_actor_url |-> actor, nostr_privkey |-> privkey, nostr_pubkey |-> pubkey]

\* SaveNostrKeypair overwriting the table: the pair saved last is the only row
SaveNostrKeypair_Overwriting(tbl, pubkey, privkey, actor) ==
  {KeyRow(actor, privkey, pubkey)}

\* Database.SaveNostrKeypair: INSERT INTO keys ... ON CONFLICT DO NOTHING
\* (nostr_pubkey is the primary key)
SaveNostrKeypair(tbl, pubkey, privkey, actor) ==
  IF \E row \in tbl : row.nostr_pubkey = pubkey
  THEN tbl
  ELSE tbl \cup {KeyRow(actor, privkey, pubkey)}

\* GetNostrKeysByActor(actor) on the keys table tbl; dbok: whether the INSERT
\* succeeds.  The result and the table afterwards.
GetNostrKeysByActor(tbl, actor, dbok) ==
  LET privkey == DerivePrivKey(actor)
      pubkey == GetPublicKey(privkey)
  IN IF dbok
     THEN [err |-> FALSE, privkey |-> privkey, pubkey |-> pubkey,
           keys |-> SaveNostrKeypair(tbl, pubkey, privkey, actor)]
     ELSE [err |-> TRUE, privkey |-> <<>>, pubkey |-> <<>>, keys |-> tbl]

\* What a call adds to the log of returned keys: the actor, the keys returned, and
\* whether the keys table tbl of the call already held a row of the actor.
KeyLogOf(actor, r, tbl) ==
  IF r.err THEN {}
  ELSE {[actor |-> actor, privkey |-> r.privkey, pubkey |-> r.pubkey,
         stored |-> \E row \in tbl : row.pub_actor_url = actor]}

----------------------------------------------------------------------------
(* The persistence layer (postgresql.go) and the cache table (cache.go).    *)

\* Database.GetPubKeyByActorUrl: the rows conn.Get may return; none: sql.ErrNoRows
GetPubKeyByActorUrl(tbl, actor) ==
  {row.nostr_pubkey : row \in {x \in tbl : x.pub_actor_url = actor}}

\* Database.GetActorURLByPubKey
GetActorURLByPubKey(tbl, pubkey) ==
  {row.pub_actor_url : row \in {x \in tbl : x.nostr_pubkey = pubkey}}

\* FollowNostrPubKey on a table without the UNIQUE constraint and the ON
\* CONFLICT clause
FollowNostrPubKey_NoConflict(tbl, actor, pubkey) ==
  tbl (+) SetToBag({<<pubkey, actor>>})

\* Database.FollowNostrPubKey: INSERT ... ON CONFLICT (nostr_pubkey, pub_actor_url)
\* DO NOTHING
FollowNostrPubKey(tbl, actor, pubkey) ==
  IF BagIn(<<pubkey, actor>>, tbl) THEN tbl ELSE tbl (+) SetToBag({<<pubkey, actor>>})

\* Database.UnfollowNostrPubKey: DELETE FROM followers WHERE nostr_pubkey = $1 AND
\* pub_actor_url = $2
UnfollowNostrPubKey(tbl, actor, pubkey) ==
  [row \in DOMAIN tbl \ {<<pubkey, actor>>} |-> tbl[row]]

\* Database.GetFollowersByPubKey
GetFollowersByPubKey(tbl, pubkey) ==
  {row[2] : row \in {x \in DOMAIN tbl : x[1] = pubkey}}

NoteRow(eventID, noteUrl) == [nostr_event_id |-> eventID, pub_note_url |-> noteUrl]

\* Database.SaveNote: INSERT ... ON CONFLICT (nostr_event_id) DO NOTHING
SaveNote(tbl, eventID, noteUrl) ==
  IF \E row \in tbl : row.nostr_event_id = eventID
  THEN tbl
  ELSE tbl \cup {NoteRow(eventID, noteUrl)}

\* fmt.Sprintf("%s@%s", follower.Value(), serviceUrl)
PubActor(value, serviceUrl) == value \o <<"@">> \o serviceUrl

\* event.Tags.GetAll([]string{"p"}), the tags' values
PTagValues(tags) == [i \in 1..Len(SelectSeq(tags, LAMBDA t : t[1] = "p")) |->
                      SelectSeq(tags, LAMBDA t : t[1] = "p")[i][2]]

\* Database.SaveFollowers: one INSERT ... ON CONFLICT DO NOTHING per "p" tag of
\* the contact list, of (event.PubKey, "<tag value>@<serviceUrl>")
RECURSIVE SaveFollowerValues(_, _, _, _)
SaveFollowerValues(tbl, pubkey, values, serviceUrl) ==
  IF values = <<>> THEN tbl
  ELSE SaveFollowerValues(
         FollowNostrPubKey(tbl, PubActor(Head(values), serviceUrl), pubkey),
         pubkey, Tail(values), serviceUrl)

SaveFollowers(tbl, event, serviceUrl) ==
  SaveFollowerValues(tbl, event.pubkey, PTagValues(event.tags), serviceUrl)

\* Database.GetNoteURLByEventID: the url of the row, none: sql.ErrNoRows
GetNoteURLByEventID(tbl, eventID) ==
  {row.pub_note_url : row \in {x \in tbl : x.nostr_event_id = eventID}}

\* Cache keys: fmt.Sprintf("0:%s"), ("1:%s"), ("1:%s:%s"), ("3:%s")
MetadataKey(pubkey) == <<"0", ":">> \o pubkey
NoteKey(id) == <<"1", ":">> \o id
NoteByPubKeyKey(pubkey, id) == <<"1", ":">> \o pubkey \o <<":">> \o id
ContactListKey(pubkey) == <<"3", ":">> \o pubkey

\* DeleteNoteByUrl: the event ids conn.Get may select for the url
NoteIDsByUrl(tbl, noteUrl) ==
  {row.nostr_event_id : row \in {x \in tbl : x.pub_note_url = noteUrl}}

\* DeleteNoteByUrl: DELETE FROM notes WHERE pub_note_url = $1
DeleteNotesByUrl(tbl, noteUrl) == {row \in tbl : row.pub_note_url # noteUrl}

\* DeleteNoteByUrl and ClearCacheByKey: DELETE FROM cache WHERE key = $1
DeleteCacheKey(tbl, key) == {row \in tbl : row.key # key}

----------------------------------------------------------------------------
(* The translator: ActivityPub.NoteToEvent (ap.go:32-83).                   *)

\* the longest chain of parent notes a translation follows in the model
MaxThread == 2

MkNote(id, attributedTo, inReplyTo, published, content, to, cc) ==
  [Id |-> id, AttributedTo |-> attributedTo, InReplyTo |-> inReplyTo,
   Published |-> published, Content |-> content, To |-> to, CC |-> cc]

NoteUrl1 == <<"fed", "/", "n1">>
NoteUrl2 == <<"fed", "/", "n2">>
NoteUrl3 == <<"fed", "/", "n3">>
NoteUrl4 == <<"fed", "/", "n4">>

\* A note of Alice, the same note after an edit, and Bob's reply to it.
NoteA == MkNote(NoteUrl1, Alice, <<>>, 1, <<"<p>", "hi", "</p>">>, <<Public>>,
                <<AliceFollowers>>)
NoteA2 == MkNote(NoteUrl1, Alice, <<>>, 1, <<"<p>", "edited", "</p>">>, <<Public>>,
                 <<AliceFollowers>>)
NoteB == MkNote(NoteUrl2, Bob, NoteUrl1, 2, <<"re">>, <<Alice>>, <<>>)
\* Two notes that name each other as the note they reply to
NoteC == MkNote(NoteUrl3, Bob, NoteUrl4, 3, <<"ping">>, <<>>, <<>>)
NoteD == MkNote(NoteUrl4, Alice, NoteUrl3, 3, <<"pong">>, <<>>, <<>>)
EmptyNote == MkNote(<<>>, <<>>, <<>>, 0, <<>>, <<>>, <<>>)

\* What the federation side serves: litepub.FetchNote(url)
RemoteNotes == {NoteA2, NoteB, NoteC, NoteD}
FetchNote(url) == {n \in RemoteNotes : n.Id = url}

\* strip.StripTags(note.Content)
HtmlTags == {"<p>", "</p>"}
IsText(t) == t \notin HtmlTags
StripTags(content) == SelectSeq(content, IsText)

\* line 55: the addresses that get no "p" tag
IsSentinel(a) == HasSuffix(a, <<"/", "followers">>) \/ HasSuffix(a, Public)

\* lines 54-61: one GetNostrKeysByActor per address, its error ignored
RECURSIVE PTags(_, _, _)
PTags(addrs, st, dbok) ==
  IF addrs = <<>> THEN [tags |-> <<>>, st |-> st]
  ELSE IF IsSentinel(Head(addrs)) THEN PTags(Tail(addrs), st, dbok)
  ELSE LET k == GetNostrKeysByActor(st.keys, Head(addrs), dbok)
           rest == PTags(Tail(addrs),
                         [st EXCEPT !.keys = k.keys,
                                    !.log = @ \cup KeyLogOf(Head(addrs), k, st.keys)], dbok)
       IN [tags |-> <<<<"p", k.pubkey, RelayURL>>>> \o rest.tags, st |-> rest.st]

\* lines 75-80: go func() { ap.db.SaveNote(event.ID, note.Id) }
SaveNoteTask(eventID, noteUrl) ==
  [kind |-> "SaveNote", id |-> eventID, url |-> noteUrl, event |-> ZeroEvent]

\* NoteToEvent(note) on the state st = [keys, saves, log]: the keys table, the
\* SaveNote goroutines started and the keys returned so far.  f.keyOk, f.auxOk:
\* whether the INSERT for the author, and the other statements, succeed; f.net:
\* whether the federation side answers.  outcome: "ok", "err" (nil, err),
\* "panic" (nil dereference) or "diverge" (the recursion did not end in MaxThread).
RECURSIVE NoteToEventRec(_, _, _, _)

Translated(outcome, event, st) == [outcome |-> outcome, event |-> event, st |-> st]
Replied(outcome, tags, st) == [outcome |-> outcome, tags |-> tags, st |-> st]

\* lines 46-47: event, _ := ap.NoteToEvent(replyNote); event.ID of a nil event
ParentTag(r) ==
  IF r.outcome = "ok" THEN Replied("ok", <<<<"e", r.event.id, RelayURL>>>>, r.st)
  ELSE IF r.outcome = "err" THEN Replied("panic", <<>>, r.st)
  ELSE Replied(r.outcome, <<>>, r.st)

\* lines 42-49, eventID being what GetNoteURLByEventID returned
ReplyTagFor(note, st, f, fuel, eventID) ==
  IF eventID # <<>> THEN Replied("ok", <<<<"e", eventID, RelayURL>>>>, st)
  ELSE IF ~f.net \/ FetchNote(note.InReplyTo) = {} THEN Replied("ok", <<>>, st)
  ELSE IF fuel = 0 THEN Replied("diverge", <<>>, st)
  ELSE ParentTag(NoteToEventRec(CHOOSE n \in FetchNote(note.InReplyTo) : TRUE, st, f,
                                fuel - 1))

\* lines 40-52; line 41 looks the note url up as an event id
ReplyTags(note, st, f, fuel) ==
  IF \/ note.InReplyTo = <<>>
     \/ ~f.auxOk
     \/ GetNoteURLByEventID(notes, note.InReplyTo) = {}
  THEN Replied("ok", <<>>, st)
  ELSE ReplyTagFor(note, st, f, fuel,
                   CHOOSE u \in GetNoteURLByEventID(notes, note.InReplyTo) : TRUE)

\* lines 75-82: the goroutine is started and the event returned
Signed(note, event, st) ==
  Translated("ok", event, [st EXCEPT !.saves = @ \cup {SaveNoteTask(event.id, note.Id)}])

\* lines 63-73, p being the "p" tags and the state after them
WithPTags(note, pubkey, tags, p) ==
  Signed(note, MkEvent(pubkey, note.Published, 1, tags \o p.tags,
                       StripTags(note.Content)), p.st)

\* lines 53-61, reply being the "e" tags and the state after them
WithReply(note, pubkey, f, reply) ==
  IF reply.outcome # "ok" THEN Translated(reply.outcome, ZeroEvent, reply.st)
  ELSE WithPTags(note, pubkey, reply.tags, PTags(note.CC \o note.To, reply.st, f.auxOk))

\* lines 34-52, k being what GetNostrKeysByActor returned for the author
WithAuthorKeys(note, st, f, fuel, k) ==
  IF k.err THEN Translated("err", ZeroEvent, st)
  ELSE WithReply(note, k.pubkey, f,
                 ReplyTags(note,
                           [st EXCEPT !.keys = k.keys,
                                      !.log = @ \cup KeyLogOf(note.AttributedTo, k, st.keys)],
                           f, fuel))

NoteToEventRec(note, st, f, fuel) ==
  WithAuthorKeys(note, st, f, fuel,
                 GetNostrKeysByActor(st.keys, note.AttributedTo, f.keyOk))

NoteToEvent(note, st, f) == NoteToEventRec(note, st, f, MaxThread)

----------------------------------------------------------------------------
(* The cache: PostgresCache.CacheEvent (cache.go:100-139).                  *)

\* cache.go:131  now() + interval '10 days'
RetentionDays == 10

\* json.Marshal(event) and json.Unmarshal([]byte(value), &event)
MarshalEvent(e) == [json |-> e]
UnmarshalEvent(v) == v.json

\* CacheKeys with the contact list stored under the key of the metadata
CacheKeys_ContactAsMetadata(e) ==
  CASE e.kind = 0 -> <<MetadataKey(e.pubkey)>>
    [] e.kind = 1 -> <<NoteKey(e.id), NoteByPubKeyKey(e.pubkey, e.id)>>
    [] e.kind = 3 -> <<MetadataKey(e.pubkey)>>
    [] OTHER -> <<>>

\* lines 106-126: the keys of an event, by kind; none: "unknown event kind"
CacheKeys(e) ==
  CASE e.kind = 0 -> <<MetadataKey(e.pubkey)>>
    [] e.kind = 1 -> <<NoteKey(e.id), NoteByPubKeyKey(e.pubkey, e.id)>>
    [] e.kind = 3 -> <<ContactListKey(e.pubkey)>>
    [] OTHER -> <<>>

\* UpsertCache with ON CONFLICT (key) DO NOTHING
UpsertCache_KeepExpiration(tbl, key, e, now) ==
  IF \E row \in tbl : row.key = key
  THEN tbl
  ELSE tbl \cup {[key |-> key, value |-> MarshalEvent(e), time |-> e.created_at,
                  expiration |-> now + RetentionDays]}

\* lines 129-133: INSERT ... ON CONFLICT (key) DO UPDATE SET expiration =
\* EXCLUDED.expiration
UpsertCache(tbl, key, e, now) ==
  IF \E row \in tbl : row.key = key
  THEN {IF row.key = key THEN [row EXCEPT !.expiration = now + RetentionDays] ELSE row :
          row \in tbl}
  ELSE tbl \cup {[key |-> key, value |-> MarshalEvent(e), time |-> e.created_at,
                  expiration |-> now + RetentionDays]}

RECURSIVE UpsertAll(_, _, _, _)
UpsertAll(tbl, ks, e, now) ==
  IF ks = <<>> THEN tbl ELSE UpsertAll(UpsertCache(tbl, Head(ks), e, now), Tail(ks), e, now)

\* CacheEvent(event) with every statement succeeding: the table afterwards
CacheEvent(tbl, e, now) == UpsertAll(tbl, CacheKeys(e), e, now)

\* GetEventByKey: the events conn.Get may read for a key
CacheLookup(tbl, key) == {UnmarshalEvent(row.value) : row \in {x \in tbl : x.key = key}}

----------------------------------------------------------------------------
(* The inbox: Handler.InboxHandler (handlers.go:37-160).                    *)
(*                                                                         *)
(* A request body is JSON.  valid: it parses as a JSON object; object is    *)
(* the value of its "object" member: absent, a JSON string (s) or a JSON    *)
(* object with a type, an actor, an "object" member of its own (inner) and, *)
(* for a note, the note's members (noteOk: with the JSON types of           *)
(* litepub.Note).  encoding/json fails on a JSON string where the Go field  *)
(* is a struct and on a JSON object where the Go field is a string.         *)

Inner(j, str) == [j |-> j, s |-> str]
Obj(j, str, type, actor, inner, note, noteOk) ==
  [j |-> j, s |-> str, type |-> type, actor |-> actor, inner |-> inner, note |-> note,
   noteOk |-> noteOk]
AbsentObj == Obj("absent", <<>>, "", <<>>, Inner("absent", <<>>), EmptyNote, TRUE)
StringObj(str) == Obj("string", str, "", <<>>, Inner("absent", <<>>), EmptyNote, TRUE)
TypedObj(type, actor, inner) == Obj("object", <<>>, type, actor, inner, EmptyNote, TRUE)
NoteObj(note, noteOk) ==
  Obj("object", <<>>, "Note", <<>>, Inner("absent", <<>>), note, noteOk)

Body(valid, type, actor, object) ==
  [valid |-> valid, type |-> type, actor |-> actor, object |-> object]
NoBody == Body(FALSE, "", <<>>, AbsentObj)

\* What the last request or service call came to: the operation, the HTTP status
\* (0: none), where it ended, the request body, the id or public key asked for,
\* the events returned.
Resp(op, status, stage, body, arg, value) ==
  [op |-> op, status |-> status, stage |-> stage, body |-> body, arg |-> arg,
   value |-> value]

\* line 41: json.Unmarshal(body, &base), base litepub.Base
DecodeBase(body) == [err |-> ~body.valid, Type |-> body.type]

\* lines 50, 126: json.Unmarshal(body, &create), create litepub.Create[litepub.Base];
\* create.Object is a struct (create.Object.Type is read)
DecodeCreateBase(body) ==
  [err |-> body.object.j \notin {"object", "absent"}, Actor |-> body.actor,
   ObjectType |-> body.object.type]

\* line 72: json.Unmarshal(body, &note), note litepub.Create[litepub.Note]
DecodeCreateNote(body) ==
  [err |-> body.object.j \notin {"object", "absent"} \/ ~body.object.noteOk,
   Object |-> body.object.note]

\* line 88: json.Unmarshal(body, &follow), follow litepub.Follow; follow.Object is
\* a string (it is passed to strings.Split)
DecodeFollow(body) ==
  [err |-> body.object.j \notin {"string", "absent"}, Actor |-> body.actor,
   Object |-> body.object.s]

\* line 111: json.Unmarshal(body, &del), del litepub.Create[string]
DecodeCreateString(body) ==
  [err |-> body.object.j \notin {"string", "absent"}, Object |-> body.object.s]

\* line 135: json.Unmarshal(body, &follow), follow litepub.Create[litepub.Follow]
DecodeCreateFollow(body) ==
  [err |-> \/ body.object.j \notin {"object", "absent"}
           \/ body.object.inner.j \notin {"string", "absent"},
   Actor |-> body.object.actor, Object |-> body.object.inner.s]

\* What goes wrong in a request: the INSERT of the author's key pair fails (keyOk),
\* another best-effort statement fails (auxOk), the federation side does not
\* answer (net), statement number failAt of the branch's own persistence call
\* fails (0: none).
Fault(keyOk, auxOk, net, failAt) ==
  [keyOk |-> keyOk, auxOk |-> auxOk, net |-> net, failAt |-> failAt]
NoFault == Fault(TRUE, TRUE, TRUE, 0)
\* The faults of the inbox runs: the first or the last statement of the branch
\* fails, or the INSERT of a key pair
Faults ==
  {NoFault, Fault(FALSE, TRUE, TRUE, 0), Fault(TRUE, TRUE, TRUE, 1),
   Fault(TRUE, TRUE, TRUE, 3)}
\* The faults of the key runs: a statement or the federation side fails
KeyFaults ==
  {NoFault, Fault(FALSE, TRUE, TRUE, 0), Fault(TRUE, FALSE, TRUE, 0),
   Fault(TRUE, TRUE, FALSE, 0)}

\* The outcome of a request: the status written (0: none, the handler panicked or
\* never answered), where the handler ended, the tables afterwards, the
\* goroutines started, the keys returned.
Out(status, stage, k, fo, n, c, sv, lg) ==
  [status |-> status, stage |-> stage, keys |-> k, followers |-> fo, notes |-> n,
   cache |-> c, saves |-> sv, log |-> lg]
Same(status, stage) == Out(status, stage, keys, followers, notes, cache, {}, {})

\* NeedKeys with the test the comment of line 66 suggests: no key pair stored yet
NeedKeys_WhenMissing(stored, selectOk) == selectOk /\ (stored = {} \/ <<>> \in stored)

\* lines 56-57: err == nil && err != sql.ErrNoRows, then key == "": conn.Get
\* returned a row, and its nostr_pubkey is empty
NeedKeys(stored, selectOk) == selectOk /\ stored # {} /\ <<>> \in stored

\* lines 78-85, t being what NoteToEvent returned
InboxNoteAnswer(t) ==
  Out(IF t.outcome = "ok" THEN 200 ELSE IF t.outcome = "err" THEN 400 ELSE 0,
      IF t.outcome = "ok" THEN "note" ELSE IF t.outcome = "err" THEN "translate"
      ELSE t.outcome,
      t.st.keys, followers, notes, cache, t.st.saves, t.st.log)

\* lines 71-85: case "Note"
InboxNote(body, f, keys1, log1) ==
  IF DecodeCreateNote(body).err
  THEN Out(400, "decode note", keys1, followers, notes, cache, {}, log1)
  ELSE InboxNoteAnswer(NoteToEvent(DecodeCreateNote(body).Object,
                                   [keys |-> keys1, saves |-> {}, log |-> log1], f))

\* lines 94-102, follow being the decoded litepub.Follow
InboxFollow(follow, f, keys1, log1) ==
  IF f.failAt = 1 THEN Out(500, "follow", keys1, followers, notes, cache, {}, log1)
  ELSE Out(200, "follow", keys1,
           FollowNostrPubKey(followers, follow.Actor, LastSegment(follow.Object)),
           notes, cache, {}, log1)

\* lines 86-102: case "Person"
InboxPerson(body, f, keys1, log1) ==
  IF DecodeFollow(body).err
  THEN Out(400, "decode follow", keys1, followers, notes, cache, {}, log1)
  ELSE InboxFollow(DecodeFollow(body), f, keys1, log1)

\* lines 70-106: switch create.Object.Type
InboxObject(body, f, keys1, log1) ==
  CASE DecodeCreateBase(body).ObjectType = "Note" -> InboxNote(body, f, keys1, log1)
    [] DecodeCreateBase(body).ObjectType = "Person" -> InboxPerson(body, f, keys1, log1)
    [] OTHER -> Out(200, "unsupported object", keys1, followers, notes, cache, {}, log1)

\* lines 58-63, k being what GetNostrKeysByActor returned
InboxCreateKeys(body, f, k) ==
  IF k.err THEN Same(400, "keys")
  ELSE InboxObject(body, f, k.keys, KeyLogOf(DecodeCreateBase(body).Actor, k, keys))

\* lines 48-108: case "Create", "Follow"
InboxCreate(body, f) ==
  IF DecodeCreateBase(body).err THEN Same(400, "decode create")
  ELSE IF NeedKeys(GetPubKeyByActorUrl(keys, DecodeCreateBase(body).Actor), f.auxOk)
  THEN InboxCreateKeys(body, f,
                       GetNostrKeysByActor(keys, DecodeCreateBase(body).Actor, f.keyOk))
  ELSE InboxObject(body, f, keys, {})

\* Database.DeleteNoteByUrl (postgresql.go:145-158) and lines 117-121; sel is the
\* event id conn.Get selects for the url; statement failAt fails
DeleteNoteByUrl(noteUrl, f, sel) ==
  IF f.failAt = 1 \/ NoteIDsByUrl(notes, noteUrl) = {} \/ f.failAt = 2
  THEN Same(500, "delete")
  ELSE IF f.failAt = 3
  THEN Out(500, "delete", keys, followers, DeleteNotesByUrl(notes, noteUrl), cache,
           {}, {})
  ELSE Out(200, "delete", keys, followers, DeleteNotesByUrl(notes, noteUrl),
           DeleteCacheKey(cache, NoteKey(sel)), {}, {})

\* lines 109-123: case "Delete"
InboxDelete(body, f, sel) ==
  IF DecodeCreateString(body).err THEN Same(400, "decode delete")
  ELSE DeleteNoteByUrl(DecodeCreateString(body).Object, f, sel)

\* InboxUnfollow with the error of UnfollowNostrPubKey dropped
InboxUnfollow_ErrorIgnored(follow, f) ==
  Out(200, "unfollow", keys,
      IF f.failAt = 1 THEN followers
      ELSE UnfollowNostrPubKey(followers, follow.Actor, LastSegment(follow.Object)),
      notes, cache, {}, {})

\* lines 142-151, follow being the decoded litepub.Create[litepub.Follow]
InboxUnfollow(follow, f) ==
  IF f.failAt = 1 THEN Same(500, "unfollow")
  ELSE Out(200, "unfollow", keys,
           UnfollowNostrPubKey(followers, follow.Actor, LastSegment(follow.Object)),
           notes, cache, {}, {})

\* InboxUndo without the switch on undo.Object.Type: every decoded object is
\* taken for a follow
InboxUndo_AnyObject(body, f) ==
  IF DecodeCreateBase(body).err THEN Same(400, "decode undo")
  ELSE IF DecodeCreateFollow(body).err THEN Same(400, "decode undo follow")
  ELSE InboxUnfollow(DecodeCreateFollow(body), f)

\* lines 124-153: case "Undo"
InboxUndo(body, f) ==
  IF DecodeCreateBase(body).err THEN Same(400, "decode undo")
  ELSE IF DecodeCreateBase(body).ObjectType # "Person" THEN Same(200, "undo ignored")
  ELSE IF DecodeCreateFollow(body).err THEN Same(400, "decode undo follow")
  ELSE InboxUnfollow(DecodeCreateFollow(body), f)

\* lines 39-158: the handler
Inbox(body, f, sel) ==
  IF DecodeBase(body).err THEN Same(400, "decode base")
  ELSE CASE DecodeBase(body).Type \in {"Create", "Follow"} -> InboxCreate(body, f)
         [] DecodeBase(body).Type = "Delete" -> InboxDelete(body, f, sel)
         [] DecodeBase(body).Type = "Undo" -> InboxUndo(body, f)
         [] OTHER -> Same(200, "ignored")

\* The rows conn.Get of DeleteNoteByUrl may select for this request.
SelChoices(body) ==
  IF body.valid /\ body.type = "Delete" /\ NoteIDsByUrl(notes, body.object.s) # {}
  THEN NoteIDsByUrl(notes, body.object.s)
  ELSE {<<>>}

\* The request answered with outcome o: the tables, the goroutines, the response
InboxAnswered(body, o) ==
  /\ keys' = o.keys
  /\ followers' = o.followers
  /\ notes' = o.notes
  /\ cache' = o.cache
  /\ pending' = pending \cup o.saves
  /\ keylog' = keylog \cup o.log
  /\ resp' = Resp("inbox", o.status, o.stage, body, <<>>, <<>>)
  /\ UNCHANGED <<clock, netvars, qvars, queries>>

InboxHandler(body, f) ==
  \E sel \in SelChoices(body) : InboxAnswered(body, Inbox(body, f, sel))

\* ap.go:75-80: a SaveNote goroutine runs; its error is only logged
SaveNoteAsync(task, dbok) ==
  /\ task \in pending /\ task.kind = "SaveNote"
  /\ pending' = pending \ {task}
  /\ notes' = IF dbok THEN SaveNote(notes, task.id, task.url) ELSE notes
  /\ UNCHANGED <<keys, followers, cache, clock, netvars, qvars, queries, resp, keylog>>

\* Handler.Nip05Handler (handlers.go:337-377): actor is what
\* litepub.FetchActivityPubURL returned, "" with an error, after which the handler
\* goes on
Nip05Handler(actor, dbok) ==
  LET k == GetNostrKeysByActor(keys, actor, dbok)
  IN /\ keys' = k.keys
     /\ keylog' = keylog \cup KeyLogOf(actor, k, keys)
     \* lines 351-356: after a failed fetch the (empty) response is encoded,
     \* which writes the 200, and the handler goes on
     /\ resp' = Resp("nip05", IF actor # <<>> /\ k.err THEN 500 ELSE 200, "keys",
                     NoBody, actor, <<>>)
     /\ UNCHANGED <<followers, notes, cache, clock, pending, netvars, qvars, queries>>

----------------------------------------------------------------------------
(* NostrService.QuerySync (nostr.go:229-290), one step per loop iteration.  *)
(* Time passes only where the code blocks: in a connection attempt and in   *)
(* a select with no ready case.                                             *)

MapGet(m, k) == IF k \in DOMAIN m THEN m[k] ELSE 0

\* n.peers: the relays the service was built with
ServicePeers == DOMAIN relayUp

\* make(chan nostr.Event, max*len(n.peers))
ChanCap == qmax * Cardinality(ServicePeers)

\* <-ctx.Done() is ready
CtxDone == elapsed >= OverallTimeout

\* lines 229-237: the context, the channel and the two maps of a new call
QuerySyncBegin(filter, max, caller) ==
  /\ qpc' = "connect"
  /\ qcaller' = caller
  /\ qfilter' = filter
  /\ qmax' = max
  /\ connectedRelays' = {}
  /\ failedConnections' = <<>>
  /\ events' = <<>>
  /\ chanClosed' = FALSE
  /\ unique' = {}
  /\ filteredEvents' = <<>>
  /\ elapsed' = 0

\* lines 238-240: the condition of the connection loop
ConnectCond ==
  /\ Cardinality(connectedRelays) < MaxRelays
  /\ Cardinality(connectedRelays) + Cardinality(DOMAIN failedConnections) <
       Cardinality(ServicePeers)
  /\ Len(events) < qmax

\* Untried with the test of the connected peers lost
Untried_FailedOnly(r) == r \notin DOMAIN failedConnections

\* lines 242-249: a peer drawn at random that passes both "previous attempt" tests
Untried(r) == r \notin DOMAIN failedConnections /\ r \notin connectedRelays

\* lines 254-260: RelayConnect fails (the peer is down, or ctx has already expired)
QConnectFail(r) ==
  /\ qpc = "connect" /\ ConnectCond /\ Untried(r)
  /\ ~relayUp[r] \/ CtxDone
  /\ \E d \in 0..Min(AttemptTimeout, OverallTimeout - elapsed) :
       elapsed' = elapsed + d
  /\ failedConnections' =
       [x \in DOMAIN failedConnections \cup {r} |->
          MapGet(failedConnections, x) + (IF x = r THEN 1 ELSE 0)]
  /\ UNCHANGED <<qpc, qcaller, qfilter, qmax, connectedRelays, events, chanClosed,
                 unique, filteredEvents>>
  /\ UNCHANGED <<dbvars, netvars, queries, resp, keylog>>

\* lines 261-269: RelayConnect succeeds and every event of the peer is sent on the
\* channel; a send on a full channel blocks, and nothing receives yet
QConnectOk(r) ==
  /\ qpc = "connect" /\ ConnectCond /\ Untried(r)
  /\ relayUp[r] /\ ~CtxDone
  /\ \E d \in 0..Min(AttemptTimeout, OverallTimeout - elapsed) :
       elapsed' = elapsed + d
  /\ connectedRelays' = connectedRelays \cup {r}
  /\ LET found == RelayQuerySync(r, qfilter)
         room == ChanCap - Len(events)
     IN IF Len(found) <= room
        THEN /\ events' = events \o found
             /\ qpc' = "connect"
        ELSE /\ events' = events \o SubSeq(found, 1, room)
             /\ qpc' = "blocked"
  /\ UNCHANGED <<qcaller, qfilter, qmax, failedConnections, chanClosed, unique,
                 filteredEvents>>
  /\ UNCHANGED <<dbvars, netvars, queries, resp, keylog>>

\* line 238: the loop condition is false
QLoopExit ==
  /\ qpc = "connect" /\ ~ConnectCond
  /\ qpc' = "consume"
  /\ UNCHANGED <<qcaller, qfilter, qmax, connectedRelays, failedConnections, events,
                 chanClosed, unique, filteredEvents, elapsed>>
  /\ UNCHANGED <<dbvars, netvars, queries, resp, keylog>>

\* line 275: for len(filteredEvents) < max
ConsumeCond == Len(filteredEvents) < qmax

\* lines 277-279: case <-ctx.Done(): close(events); break (out of the select only).
\* close of a closed channel panics.
QSelectDone ==
  /\ qpc = "consume" /\ ConsumeCond /\ CtxDone
  /\ IF chanClosed
     THEN qpc' = "panic" /\ chanClosed' = chanClosed
     ELSE qpc' = "consume" /\ chanClosed' = TRUE
  /\ UNCHANGED <<qcaller, qfilter, qmax, connectedRelays, failedConnections, events,
                 unique, filteredEvents, elapsed>>
  /\ UNCHANGED <<dbvars, netvars, queries, resp, keylog>>

\* SeenBefore with the test of the unique map lost
SeenBefore_NoDedup(e) == FALSE

\* line 282: if _, ok := unique[event.ID]; !ok
SeenBefore(e) == e.id \in unique

\* lines 280-285: case event := <-events; a closed channel yields what is left in
\* its buffer and then zero values
QSelectRecv ==
  /\ qpc = "consume" /\ ConsumeCond
  /\ events # <<>> \/ chanClosed
  /\ LET event == IF events # <<>> THEN Head(events) ELSE ZeroEvent
     IN /\ events' = IF events # <<>> THEN Tail(events) ELSE events
        /\ IF SeenBefore(event)
           THEN UNCHANGED <<unique, filteredEvents>>
           ELSE /\ unique' = unique \cup {event.id}
                /\ filteredEvents' = Append(filteredEvents, event)
  /\ UNCHANGED <<qpc, qcaller, qfilter, qmax, connectedRelays, failedConnections,
                 chanClosed, elapsed>>
  /\ UNCHANGED <<dbvars, netvars, queries, resp, keylog>>

\* line 276: no case is ready; the select blocks until the deadline of ctx
QSelectWait ==
  /\ qpc = "consume" /\ ConsumeCond
  /\ events = <<>> /\ ~chanClosed /\ ~CtxDone
  /\ elapsed' = OverallTimeout
  /\ UNCHANGED <<qpc, qcaller, qfilter, qmax, connectedRelays, failedConnections,
                 events, chanClosed, unique, filteredEvents>>
  /\ UNCHANGED <<dbvars, netvars, queries, resp, keylog>>

\* line 289 and the deferred calls of lines 231, 233, 271: return filteredEvents,
\* then close(events), which panics when the loop has closed the channel already
QReturn ==
  /\ qpc = "consume" /\ ~ConsumeCond
  /\ IF chanClosed
     THEN qpc' = "panic" /\ chanClosed' = chanClosed
     ELSE qpc' = "done" /\ chanClosed' = TRUE
  /\ UNCHANGED <<qcaller, qfilter, qmax, connectedRelays, failedConnections, events,
                 unique, filteredEvents, elapsed>>
  /\ UNCHANGED <<dbvars, netvars, queries, resp, keylog>>

QuerySyncStep ==
  \/ \E r \in ServicePeers : QConnectFail(r)
  \/ \E r \in ServicePeers : QConnectOk(r)
  \/ QLoopExit
  \/ QSelectDone
  \/ QSelectRecv
  \/ QSelectWait
  \/ QReturn

\* No QuerySync call is in flight (a panic is recovered by the HTTP server).
QIdle == qpc \in {"idle", "done", "panic"}

Direct == [op |-> "QuerySync", arg |-> <<>>]

\* A call of QuerySync on its own, with any filter result and any max.
QuerySyncDirect(max) ==
  /\ QIdle
  /\ QuerySyncBegin(AnyFilter, max, Direct)
  /\ UNCHANGED <<dbvars, netvars, queries, resp, keylog>>

----------------------------------------------------------------------------
(* The aggregator on its own: every peer is up or down and holds one of a   *)
(* few overlapping lists of notes.                                          *)

StoreMenu == {<<>>, <<N1, N2>>, <<N2, N3>>, <<N1, N3>>}

EmptyDB ==
  /\ keys = {}
  /\ followers = EmptyBag
  /\ notes = {}
  /\ cache = {}
  /\ clock = 0
  /\ pending = {}

NoResp == Resp("none", 0, "none", NoBody, <<>>, <<>>)

QInit ==
  /\ qpc = "idle"
  /\ qcaller = Direct
  /\ qfilter = AnyFilter
  /\ qmax = 0
  /\ connectedRelays = {}
  /\ failedConnections = <<>>
  /\ events = <<>>
  /\ chanClosed = FALSE
  /\ unique = {}
  /\ filteredEvents = <<>>
  /\ elapsed = 0

InitQuery ==
  /\ EmptyDB
  /\ relayUp \in [Peers -> BOOLEAN]
  /\ relayStore \in [Peers -> StoreMenu]
  /\ \A r \in Peers : ~relayUp[r] => relayStore[r] = <<>>
  /\ QInit
  /\ queries = 0
  /\ resp = NoResp
  /\ keylog = {}

NextQuery ==
  \/ \E max \in 0..MaxMax : QuerySyncDirect(max)
  \/ QuerySyncStep

SpecQuery == InitQuery /\ [][NextQuery]_vars

----------------------------------------------------------------------------
(* The inbox with the goroutines it starts, NIP-05 lookups, and the two     *)
(* service operations that write what the network answered into the tables  *)
(* the inbox works on.                                                      *)

\* "<ServiceURL>/pub/user/<pubkey>", the id of a bridged actor
UserUrl(pubkey) == ServiceURL \o <<"/", "pub", "/", "user", "/">> \o pubkey

\* A Follow as ActivityPub servers send it: the object is the target's id
FollowActivity(actor, pubkey) == Body(TRUE, "Follow", actor, StringObj(UserUrl(pubkey)))

\* An activity whose object has type Person and names the follow target
PersonActivity(type, actor, pubkey) ==
  Body(TRUE, type, actor, TypedObj("Person", actor, Inner("string", UserUrl(pubkey))))

CreateNote(note, noteOk) == Body(TRUE, "Create", note.AttributedTo, NoteObj(note, noteOk))

DeleteActivity(actor, url) == Body(TRUE, "Delete", actor, StringObj(url))

\* An Undo whose object has the given type, actor and "object" member
UndoActivity(type, actor, pubkey) ==
  Body(TRUE, "Undo", actor, TypedObj(type, actor, Inner("string", UserUrl(pubkey))))

\* The contact list a peer relay holds: P1's, naming P2 and P1
K1 == MkEvent(P1, 1, 3, <<<<"p", P2>>, <<"e", <<"x">>>>, <<"p", P1>>>>, <<>>)

Followers == {Alice, PubActor(P2, ServiceURL)}

Bodies ==
  {Body(FALSE, "", <<>>, AbsentObj),
   FollowActivity(Alice, P1),
   PersonActivity("Follow", Alice, P1),
   PersonActivity("Create", Alice, P1),
   CreateNote(NoteA, TRUE), CreateNote(NoteA, FALSE), CreateNote(NoteA2, TRUE),
   Body(TRUE, "Create", Alice, TypedObj("Article", Alice, Inner("absent", <<>>))),
   DeleteActivity(Alice, NoteUrl1),
   Body(TRUE, "Delete", Alice, TypedObj("Tombstone", <<>>, Inner("absent", <<>>))),
   Body(TRUE, "Undo", Alice, StringObj(UserUrl(P1))),
   Body(TRUE, "Undo", Alice, TypedObj("Person", Alice, Inner("object", <<>>))),
   Body(TRUE, "Like", Alice, StringObj(NoteUrl1))}
  \cup {UndoActivity(t, a, P1) : t \in {"Person", "Follow"}, a \in Followers}

\* The events the translator makes of the notes of the model (the key pair of an
\* author does not depend on the tables).
Bridged(note) ==
  NoteToEvent(note, [keys |-> {}, saves |-> {}, log |-> {}], NoFault).event
BridgedEvents == {Bridged(NoteA), Bridged(NoteA2)}

\* NostrService.GetFollowersByPubKey (nostr.go:157-171) after QuerySync returned
\* the contact list event: SaveFollowers (the SELECT that follows changes nothing)
GetFollowersByPubKeyFound(event, dbok) ==
  /\ followers' = IF dbok THEN SaveFollowers(followers, event, ServiceURL) ELSE followers
  /\ resp' = Resp("followers", IF dbok THEN 200 ELSE 500, "save", NoBody,
                  event.pubkey, <<>>)
  /\ UNCHANGED <<keys, notes, cache, clock, pending, netvars, qvars, queries, keylog>>

\* NostrService.GetNotesByPubKey (nostr.go:143-152): the goroutine caching a note
\* the network returned.  A bridged note is on the network only after it was
\* translated, served by the relay of this service and published on by a reader.
CacheNetworkNote(event) ==
  /\ \E row \in notes : row.nostr_event_id = event.id
  /\ cache' = CacheEvent(cache, event, clock)
  /\ cache' # cache
  /\ UNCHANGED <<keys, followers, notes, clock, pending, netvars, qvars, queries, resp,
                 keylog>>

InitInbox ==
  /\ EmptyDB
  /\ relayUp = [r \in Peers |-> FALSE]
  /\ relayStore = [r \in Peers |-> <<>>]
  /\ QInit
  /\ queries = 0
  /\ resp = NoResp
  /\ keylog = {}

NextInbox ==
  \/ \E body \in Bodies, f \in Faults : InboxHandler(body, f)
  \/ \E task \in pending, dbok \in BOOLEAN : SaveNoteAsync(task, dbok)
  \/ \E dbok \in BOOLEAN : GetFollowersByPubKeyFound(K1, dbok)
  \/ \E event \in BridgedEvents : CacheNetworkNote(event)

SpecInbox == InitInbox /\ [][NextInbox]_vars

----------------------------------------------------------------------------
(* The callers of GetNostrKeysByActor: NIP-05 lookups and the translation   *)
(* of delivered notes, for their authors and their addressees.              *)

NoteBodies == {CreateNote(NoteA, TRUE), CreateNote(NoteB, TRUE), CreateNote(NoteC, TRUE)}

NextKeys ==
  \/ \E body \in NoteBodies, f \in KeyFaults : InboxHandler(body, f)
  \/ \E task \in pending, dbok \in BOOLEAN : SaveNoteAsync(task, dbok)
  \/ \E actor \in {Alice, Bob, <<>>}, dbok \in BOOLEAN : Nip05Handler(actor, dbok)

SpecKeys == InitInbox /\ [][NextKeys]_vars

----------------------------------------------------------------------------
(* The cache-then-network operations of the service (nostr.go:101-123,      *)
(* 173-227).  A call reads the cache and either answers or starts           *)
(* QuerySync; when QuerySync has returned or panicked the call goes on.     *)
(* queries counts the QuerySync calls of the operation called last.         *)

\* go func() { n.cache.CacheEvent(events[0]) }
CacheTask(event) ==
  [kind |-> "CacheEvent", id |-> event.id, url |-> <<>>, event |-> event]

\* PostgresCache.GetEventByKey (cache.go:81-98); readOk: the SELECT fails with
\* nothing but sql.ErrNoRows.  events: the event read, none: (nil, nil)
GetEventByKey(tbl, key, readOk) ==
  [err |-> ~readOk, events |-> IF readOk THEN CacheLookup(tbl, key) ELSE {}]

AsSeq(es) == IF es = {} THEN <<>> ELSE <<CHOOSE e \in es : TRUE>>

\* No request is being served.
ServiceIdle == QIdle /\ resp.stage # "running"

\* The call starts QuerySync(filter, 1)
StartQuery(op, arg, filter) ==
  /\ QuerySyncBegin(filter, 1, [op |-> op, arg |-> arg])
  /\ queries' = 1
  /\ resp' = Resp(op, 0, "running", NoBody, arg, <<>>)

\* The call returns without a query
AnswerFromCache(op, arg, stage, es) ==
  /\ resp' = Resp(op, 0, stage, NoBody, arg, AsSeq(es))
  /\ queries' = 0
  /\ UNCHANGED qvars

\* nostr.go:102-108: if event, err := n.cache.GetNoteByID(ID); err == nil
\* { return event, nil }
GetEventByIDCall(ID, readOk) ==
  /\ ServiceIdle
  /\ IF ~GetEventByKey(cache, NoteKey(ID), readOk).err
     THEN AnswerFromCache("GetEventByID", ID,
                          IF CacheLookup(cache, NoteKey(ID)) = {} THEN "nil, nil"
                          ELSE "hit",
                          CacheLookup(cache, NoteKey(ID)))
     ELSE StartQuery("GetEventByID", ID, MkFilter({ID}, {}, {}, FALSE, 0))
  /\ UNCHANGED <<dbvars, netvars, keylog>>

\* nostr.go:205-212: err == nil && event != nil
GetMetadataByPubKeyCall(pubkey, readOk) ==
  /\ ServiceIdle
  /\ IF GetEventByKey(cache, MetadataKey(pubkey), readOk).events # {}
     THEN AnswerFromCache("GetMetadataByPubKey", pubkey, "hit",
                          CacheLookup(cache, MetadataKey(pubkey)))
     ELSE StartQuery("GetMetadataByPubKey", pubkey, MkFilter({}, {pubkey}, {0}, FALSE, 0))
  /\ UNCHANGED <<dbvars, netvars, keylog>>

\* nostr.go:110-122 and 214-226: events := n.QuerySync(filter, 1), "event not
\* found" or the goroutine and &events[0]
QueryAnswered(op) ==
  /\ resp.op = op /\ resp.stage = "running" /\ qpc \in {"done", "panic"}
  /\ IF qpc = "panic"
     THEN /\ resp' = Resp(op, 0, "panic", NoBody, resp.arg, <<>>)
          /\ pending' = pending
     ELSE IF Len(filteredEvents) = 0
     THEN /\ resp' = Resp(op, 0, "not found", NoBody, resp.arg, <<>>)
          /\ pending' = pending
     ELSE /\ resp' = Resp(op, 0, "event", NoBody, resp.arg, <<filteredEvents[1]>>)
          /\ pending' = pending \cup {CacheTask(filteredEvents[1])}
  /\ UNCHANGED <<keys, followers, notes, cache, clock, netvars, qvars, queries, keylog>>

GetEventByIDReturn == QueryAnswered("GetEventByID")

GetMetadataByPubKeyReturn == QueryAnswered("GetMetadataByPubKey")

\* nostr.go:174-184: err != nil returns the error; event == nil starts the query
GetFollowingByPubKeyCall(pubkey, readOk) ==
  /\ ServiceIdle
  /\ IF GetEventByKey(cache, ContactListKey(pubkey), readOk).err
     THEN AnswerFromCache("GetFollowingByPubKey", pubkey, "error", {})
     ELSE IF CacheLookup(cache, ContactListKey(pubkey)) # {}
     THEN AnswerFromCache("GetFollowingByPubKey", pubkey, "hit",
                          CacheLookup(cache, ContactListKey(pubkey)))
     ELSE StartQuery("GetFollowingByPubKey", pubkey,
                     MkFilter({}, {pubkey}, {3}, FALSE, 0))
  /\ UNCHANGED <<dbvars, netvars, keylog>>

\* nostr.go:185-201: CacheEvent in line (its error only logged), then event.Tags
\* of the event, which is nil when QuerySync returned nothing.  The value is the
\* contact list whose "p" tags are returned.
GetFollowingByPubKeyReturn(dbok) ==
  /\ resp.op = "GetFollowingByPubKey" /\ resp.stage = "running"
  /\ qpc \in {"done", "panic"}
  /\ IF qpc = "panic"
     THEN /\ resp' = Resp(resp.op, 0, "panic", NoBody, resp.arg, <<>>)
          /\ cache' = cache
     ELSE IF Len(filteredEvents) = 0
     THEN /\ resp' = Resp(resp.op, 0, "nil dereference", NoBody, resp.arg, <<>>)
          /\ cache' = cache
     ELSE /\ resp' = Resp(resp.op, 0, "event", NoBody, resp.arg, <<filteredEvents[1]>>)
          /\ cache' = IF dbok THEN CacheEvent(cache, filteredEvents[1], clock) ELSE cache
  /\ UNCHANGED <<keys, followers, notes, clock, pending, netvars, qvars, queries,
                 keylog>>

\* A CacheEvent goroutine runs; its error is only logged
CacheEventAsync(task, dbok) ==
  /\ task \in pending /\ task.kind = "CacheEvent"
  /\ pending' = pending \ {task}
  /\ cache' = IF dbok THEN CacheEvent(cache, task.event, clock) ELSE cache
  /\ UNCHANGED <<keys, followers, notes, clock, netvars, qvars, queries, resp, keylog>>

\* P1's profile
M1 == MkEvent(P1, 1, 0, <<>>, <<"profile">>)

\* What a peer that is up holds: a note, a profile and a contact list of P1
ServiceStore == <<N1, M1, K1>>

InitService ==
  /\ EmptyDB
  /\ relayUp \in [Peers -> BOOLEAN]
  /\ relayStore = [r \in Peers |-> IF relayUp[r] THEN ServiceStore ELSE <<>>]
  /\ QInit
  /\ queries = 0
  /\ resp = NoResp
  /\ keylog = {}

NextService ==
  \/ \E ID \in {N1.id, N3.id}, readOk \in BOOLEAN : GetEventByIDCall(ID, readOk)
  \/ GetEventByIDReturn
  \/ \E pubkey \in {P1, P2}, readOk \in BOOLEAN : GetMetadataByPubKeyCall(pubkey, readOk)
  \/ GetMetadataByPubKeyReturn
  \/ \E pubkey \in {P1, P2}, readOk \in BOOLEAN : GetFollowingByPubKeyCall(pubkey, readOk)
  \/ \E dbok \in BOOLEAN : GetFollowingByPubKeyReturn(dbok)
  \/ \E task \in pending, dbok \in BOOLEAN : CacheEventAsync(task, dbok)
  \/ QuerySyncStep

SpecService == InitService /\ [][NextService]_vars

-----------------------------------------------------------------------------
(* The event cache on its own: PostgresCache (cache.go), with the wall      *)
(* clock of now() advancing between the calls.                              *)

\* The last value of clock in the cache specification
MaxClock == 2

\* LIMIT 100 of the range read
CacheLimit == 100

\* strings.HasPrefix(s, prefix)
HasPrefix(s, prefix) ==
  /\ Len(prefix) <= Len(s)
  /\ SubSeq(s, 1, Len(prefix)) = prefix

\* key LIKE pattern: "%" in the pattern stands for any run of tokens, every other
\* token for itself (the keys of the model hold neither "%" nor "_")
RECURSIVE Like(_, _)
Like(s, pat) ==
  IF pat = <<>> THEN s = <<>>
  ELSE IF Head(pat) = "%"
       THEN Like(s, Tail(pat)) \/ (s # <<>> /\ Like(Tail(s), pat))
       ELSE s # <<>> /\ Head(s) = Head(pat) /\ Like(Tail(s), Tail(pat))

\* line 57: the argument $1, fmt.Sprintf("1:%s:%%", pubkey)
NotesArg(pubkey) == <<"1", ":">> \o pubkey \o <<":", "%">>

\* The pattern being the argument alone: key LIKE $1
NotesPattern_ArgOnly(pubkey) == NotesArg(pubkey)

\* line 55: '1:' || $1 || '%'
NotesPattern(pubkey) == <<"1", ":">> \o NotesArg(pubkey) \o <<"%">>

\* lines 54-55: the rows the WHERE clause selects
NoteRows(tbl, pubkey) == {row \in tbl : Like(row.key, NotesPattern(pubkey))}

\* lines 56-57: ORDER BY time DESC LIMIT 100; rows of equal time come in any order
Orderings(rows, n) ==
  {s \in [1..n -> rows] :
     /\ \A i, j \in 1..n : i < j => s[i] # s[j] /\ s[i].time >= s[j].time
     /\ \A row \in rows : (\A i \in 1..n : s[i] # row) =>
                            \A i \in 1..n : s[i].time >= row.time}

\* PostgresCache.GetNotesByPubKey (cache.go:51-71): the lists the call may return
GetNotesByPubKey(tbl, pubkey) ==
  {[i \in 1..Len(s) |-> UnmarshalEvent(s[i].value)] :
     s \in Orderings(NoteRows(tbl, pubkey),
                     Min(Cardinality(NoteRows(tbl, pubkey)), CacheLimit))}

\* PostgresCache.GetNoteByID, GetMetadata, GetContactList (cache.go:47-49, 73-79)
GetNoteByID(tbl, id, readOk) == GetEventByKey(tbl, <<"1", ":">> \o id, readOk)
GetMetadata(tbl, pubkey, readOk) == GetEventByKey(tbl, <<"0", ":">> \o pubkey, readOk)
GetContactList(tbl, pubkey, readOk) == GetEventByKey(tbl, <<"3", ":">> \o pubkey, readOk)

\* CacheEvent(event), the failAt-th INSERT failing (0: none): lines 106-126 return
\* an error before any write for an unknown kind, lines 128-136 stop at the first
\* failing statement
CacheEventResult(tbl, e, now, failAt) ==
  IF CacheKeys(e) = <<>> THEN [err |-> TRUE, cache |-> tbl]
  ELSE IF failAt \in 1..Len(CacheKeys(e))
       THEN [err |-> TRUE,
             cache |-> UpsertAll(tbl, SubSeq(CacheKeys(e), 1, failAt - 1), e, now)]
       ELSE [err |-> FALSE, cache |-> CacheEvent(tbl, e, now)]

\* The keys of e the table holds already
KeysHeld(tbl, e) == SelectSeq(CacheKeys(e), LAMBDA k : \E row \in tbl : row.key = k)

CacheAnswered(e, held, r) ==
  /\ cache' = r.cache
  /\ resp' = Resp("CacheEvent", 0, IF r.err THEN "error" ELSE "ok", NoBody, held, <<e>>)

\* A call of CacheEvent(e); resp.arg: the keys of e stored before the call
CacheEventCall(e, failAt) ==
  /\ CacheAnswered(e, KeysHeld(cache, e), CacheEventResult(cache, e, clock, failAt))
  /\ UNCHANGED <<keys, followers, notes, clock, pending, netvars, qvars, queries, keylog>>

\* A call of GetNotesByPubKey(pubkey); readOk: the SELECT succeeds
GetNotesByPubKeyCall(pubkey, readOk) ==
  /\ \E s \in GetNotesByPubKey(cache, pubkey) :
       resp' = Resp("GetNotesByPubKey", 0, IF readOk THEN "ok" ELSE "error", NoBody,
                    pubkey, IF readOk THEN s ELSE <<>>)
  /\ UNCHANGED <<dbvars, netvars, qvars, queries, keylog>>

\* Time passes
CacheTick ==
  /\ clock < MaxClock
  /\ clock' = clock + 1
  /\ UNCHANGED <<keys, followers, notes, cache, pending, netvars, qvars, queries, resp,
                 keylog>>

\* An event of a kind the cache does not store
X7 == MkEvent(P1, 1, 7, <<>>, <<"dm">>)

\* A later profile of P1
M2 == MkEvent(P1, 2, 0, <<>>, <<"profile", "2">>)

CacheInputs == {N1, N2, M1, M2, K1, X7}

InitCache ==
  /\ EmptyDB
  /\ relayUp = [r \in Peers |-> FALSE]
  /\ relayStore = [r \in Peers |-> <<>>]
  /\ QInit
  /\ queries = 0
  /\ resp = NoResp
  /\ keylog = {}

NextCache ==
  \/ \E e \in CacheInputs, failAt \in 0..2 : CacheEventCall(e, failAt)
  \/ \E pubkey \in {P1, P2}, readOk \in BOOLEAN : GetNotesByPubKeyCall(pubkey, readOk)
  \/ CacheTick

SpecCache == InitCache /\ [][NextCache]_vars
-----------------------------------------------------------------------------
(* The notes and the followers of a subject: NostrService.GetNotesByPubKey  *)
(* and NostrService.GetFollowersByPubKey (nostr.go:125-171).                *)

\* The max of the query for notes: 50 in the source (line 142), scaled to the
\* notes the peers of the model hold.  QuerySync returns without a panic only
\* when that many distinct events arrived before the deadline.
NotesMax == 2

\* time.Date(1971, 1, 1, ...): earlier than every event of the model
Since1971 == 0

NotesOp == "Service.GetNotesByPubKey"
FollowersOp == "Service.GetFollowersByPubKey"

\* The call starts QuerySync(filter, max); value: what it read before
StartQueryMax(op, arg, filter, max, value) ==
  /\ QuerySyncBegin(filter, max, [op |-> op, arg |-> arg])
  /\ queries' = 1
  /\ resp' = Resp(op, 0, "running", NoBody, arg, value)

\* lines 131-140
NotesFilter(pubkey, cached) ==
  MkFilter({}, {pubkey}, {1}, TRUE,
           IF Len(cached) > 0 THEN cached[1].created_at ELSE Since1971)

\* lines 126-142: the cached notes, then the query; readOk: the SELECT succeeds
ServiceGetNotesByPubKeyCall(pubkey, readOk) ==
  /\ ServiceIdle
  /\ IF ~readOk
     THEN /\ resp' = Resp(NotesOp, 0, "error", NoBody, pubkey, <<>>)
          /\ queries' = 0
          /\ UNCHANGED qvars
     ELSE \E cached \in GetNotesByPubKey(cache, pubkey) :
            StartQueryMax(NotesOp, pubkey, NotesFilter(pubkey, cached), NotesMax, cached)
  /\ UNCHANGED <<dbvars, netvars, keylog>>

\* NotesResult without the events of the query
NotesResult_CachedOnly(cached, evs) == cached

\* line 154: append(cached, events...)
NotesResult(cached, evs) == cached \o evs

\* lines 143-152: the goroutine caches the events one after the other
CacheTasks(evs) == {CacheTask(evs[i]) : i \in 1..Len(evs)}

\* lines 142-154, after QuerySync
ServiceGetNotesByPubKeyReturn ==
  /\ resp.op = NotesOp /\ resp.stage = "running" /\ qpc \in {"done", "panic"}
  /\ IF qpc = "panic"
     THEN /\ resp' = Resp(NotesOp, 0, "panic", NoBody, resp.arg, <<>>)
          /\ pending' = pending
     ELSE /\ resp' = Resp(NotesOp, 0, "ok", NoBody, resp.arg,
                          NotesResult(resp.value, filteredEvents))
          /\ pending' = pending \cup CacheTasks(filteredEvents)
  /\ UNCHANGED <<keys, followers, notes, cache, clock, netvars, qvars, queries, keylog>>

\* lines 158-163
ServiceGetFollowersByPubKeyCall(pubkey) ==
  /\ ServiceIdle
  /\ StartQueryMax(FollowersOp, pubkey, MkFilter({}, {pubkey}, {3}, FALSE, 0), 1, <<>>)
  /\ UNCHANGED <<dbvars, netvars, keylog>>

\* Database.SaveFollowers, the failAt-th INSERT failing (0: none): the loop
\* returns at the first error, the rows inserted before stay
SaveFollowersResult(tbl, event, serviceUrl, failAt) ==
  IF failAt \in 1..Len(PTagValues(event.tags))
  THEN [err |-> TRUE,
        followers |-> SaveFollowerValues(tbl, event.pubkey,
                        SubSeq(PTagValues(event.tags), 1, failAt - 1), serviceUrl)]
  ELSE [err |-> FALSE, followers |-> SaveFollowers(tbl, event, serviceUrl)]

\* The orders a SELECT without ORDER BY may return the members of S in
Listings(S) ==
  {s \in [1..Cardinality(S) -> S] : \A i, j \in 1..Cardinality(S) : i < j => s[i] # s[j]}

\* lines 165-170, saved: what SaveFollowers did
FollowersAnswered(saved, readOk) ==
  /\ followers' = saved.followers
  /\ IF saved.err \/ ~readOk
     THEN resp' = Resp(FollowersOp, 0, "error", NoBody, resp.arg, <<>>)
     ELSE \E s \in Listings(GetFollowersByPubKey(saved.followers, resp.arg)) :
            resp' = Resp(FollowersOp, 0, "ok", NoBody, resp.arg, s)

\* lines 163-170, after QuerySync
ServiceGetFollowersByPubKeyReturn(failAt, readOk) ==
  /\ resp.op = FollowersOp /\ resp.stage = "running" /\ qpc \in {"done", "panic"}
  /\ IF qpc = "panic"
     THEN /\ resp' = Resp(FollowersOp, 0, "panic", NoBody, resp.arg, <<>>)
          /\ followers' = followers
     ELSE IF Len(filteredEvents) > 0
     THEN FollowersAnswered(
            SaveFollowersResult(followers, filteredEvents[1], ServiceURL, failAt), readOk)
     ELSE FollowersAnswered([err |-> FALSE, followers |-> followers], readOk)
  /\ UNCHANGED <<keys, notes, cache, clock, pending, netvars, qvars, queries, keylog>>

\* What a peer that is up holds: two notes and the contact list of P1
FeedStore == <<N1, N2, K1>>

InitFeed ==
  /\ EmptyDB
  /\ relayUp \in [Peers -> BOOLEAN]
  /\ relayStore = [r \in Peers |-> IF relayUp[r] THEN FeedStore ELSE <<>>]
  /\ QInit
  /\ queries = 0
  /\ resp = NoResp
  /\ keylog = {}

NextFeed ==
  \/ \E pubkey \in {P1, P2}, readOk \in BOOLEAN : ServiceGetNotesByPubKeyCall(pubkey, readOk)
  \/ ServiceGetNotesByPubKeyReturn
  \/ \E pubkey \in {P1, P2} : ServiceGetFollowersByPubKeyCall(pubkey)
  \/ \E failAt \in 0..2, readOk \in BOOLEAN : ServiceGetFollowersByPubKeyReturn(failAt, readOk)
  \/ \E task \in pending, dbok \in BOOLEAN : CacheEventAsync(task, dbok)
  \/ QuerySyncStep

SpecFeed == InitFeed /\ [][NextFeed]_vars
\* The calls for notes with every statement of the cache succeeding, and the
\* schedule of the Go runtime: every goroutine that can run does run, a call
\* in flight goes on.
NextFeedNotes ==
  \/ \E pubkey \in {P1, P2} : ServiceGetNotesByPubKeyCall(pubkey, TRUE)
  \/ ServiceGetNotesByPubKeyReturn
  \/ \E task \in pending : CacheEventAsync(task, TRUE)
  \/ QuerySyncStep

FairSpecFeed ==
  /\ InitFeed
  /\ [][NextFeedNotes]_vars
  /\ WF_vars(QuerySyncStep)
  /\ WF_vars(ServiceGetNotesByPubKeyReturn)
  /\ \A e \in {N1, N2} : WF_vars(CacheEventAsync(CacheTask(e), TRUE))
-----------------------------------------------------------------------------
(* The relay side: ActivityPub.ActorToEvent, ActorFollowsToEvent            *)
(* (ap.go:85-154) and Storage.QueryEvents (handlers.go:479-549), which      *)
(* answers a subscription of a nostr client from the federation side.       *)

\* litepub.Actor with the fields the program reads
MkActor(id, preferredUsername, name, summary, icon, published, following, outbox) ==
  [Id |-> id, PreferredUsername |-> preferredUsername, Name |-> name,
   Summary |-> summary, Icon |-> icon, Published |-> published,
   Following |-> following, Outbox |-> outbox]

Carol == <<"fed", "/", "carol">>

\* What the federation side serves: the actors, whom they follow, their notes
ActorAlice ==
  MkActor(Alice, <<"alice">>, <<>>, <<"about">>, <<"icon">>, 1,
          Alice \o <<"/", "following">>, Alice \o <<"/", "outbox">>)
ActorBob ==
  MkActor(Bob, <<"bob">>, <<"Bob">>, <<>>, <<>>, 2,
          Bob \o <<"/", "following">>, Bob \o <<"/", "outbox">>)
RemoteActors == {ActorAlice, ActorBob}

\* litepub.FetchActor(url): none is an error
FetchActor(url) == {a \in RemoteActors : a.Id = url}

\* litepub.FetchFollowing(url)
FetchFollowing(url) ==
  IF url = ActorAlice.Following THEN <<Bob, Carol>> ELSE <<>>

\* litepub.FetchNotes(url)
FetchNotes(url) ==
  IF url = ActorAlice.Outbox THEN <<NoteA2>>
  ELSE IF url = ActorBob.Outbox THEN <<NoteB>>
  ELSE <<>>

\* url.Parse(actor.Id), parsed.Hostname()
Hostname(url) == IF url = <<>> THEN <<>> ELSE <<Head(url)>>

\* ap.go:91-107: the profile, marshalled
ProfileMetadata(actor) ==
  <<"name">> \o (IF actor.Name = <<>> THEN actor.PreferredUsername ELSE actor.Name)
  \o <<"about">> \o actor.Summary \o <<"picture">> \o actor.Icon
  \o <<"nip05">> \o actor.PreferredUsername \o <<"@">> \o Hostname(actor.Id)

\* ap.go:86-121, k being what GetNostrKeysByActor returned for the actor
ActorToEventWith(actor, st, k) ==
  IF k.err THEN [outcome |-> "err", event |-> ZeroEvent, st |-> st]
  ELSE [outcome |-> "ok",
        event |-> MkEvent(k.pubkey, actor.Published, 0, <<>>, ProfileMetadata(actor)),
        st |-> [st EXCEPT !.keys = k.keys,
                          !.log = @ \cup KeyLogOf(actor.Id, k, st.keys)]]

ActorToEvent(actor, st, f) ==
  ActorToEventWith(actor, st, GetNostrKeysByActor(st.keys, actor.Id, f.keyOk))

\* ap.go:131-140: tags := make(nostr.Tags, len(follows)); the i-th address
\* fills tags[i], or leaves it nil when its keys cannot be had.  The INSERT for
\* the i-th address fails when f.auxOk is false or f.failAt = i.
RECURSIVE FollowTags(_, _, _, _)
FollowTagsWith(follows, i, st, f, k) ==
  [tags |-> <<IF k.err THEN <<>> ELSE <<"p", k.pubkey, RelayURL>>>>
            \o FollowTags(follows, i + 1,
                          [st EXCEPT !.keys = k.keys,
                                     !.log = @ \cup KeyLogOf(follows[i], k, st.keys)],
                          f).tags,
   st |-> FollowTags(follows, i + 1,
                     [st EXCEPT !.keys = k.keys,
                                !.log = @ \cup KeyLogOf(follows[i], k, st.keys)], f).st]

FollowTags(follows, i, st, f) ==
  IF i > Len(follows) THEN [tags |-> <<>>, st |-> st]
  ELSE FollowTagsWith(follows, i, st, f,
                      GetNostrKeysByActor(st.keys, follows[i], f.auxOk /\ f.failAt # i))

\* ap.go:130: follows, _ := litepub.FetchFollowing(actor.Following)
Follows(actor, f) == IF f.net THEN FetchFollowing(actor.Following) ELSE <<>>

\* ap.go:142-153, t being the tags and the state after them
ContactList(actor, pubkey, t) ==
  [outcome |-> "ok", event |-> MkEvent(pubkey, actor.Published, 3, t.tags, <<>>),
   st |-> t.st]

\* ap.go:125-153, k being what GetNostrKeysByActor returned for the actor
ActorFollowsToEventWith(actor, st, f, k) ==
  IF k.err THEN [outcome |-> "err", event |-> ZeroEvent, st |-> st]
  ELSE ContactList(actor, k.pubkey,
                   FollowTags(Follows(actor, f), 1,
                              [st EXCEPT !.keys = k.keys,
                                         !.log = @ \cup KeyLogOf(actor.Id, k, st.keys)],
                              f))

ActorFollowsToEvent(actor, st, f) ==
  ActorFollowsToEventWith(actor, st, f, GetNostrKeysByActor(st.keys, actor.Id, f.keyOk))

\* The filter of a subscription: IDs, Authors, Kinds and Tags["e"]
RelayFilter(ids, authors, kinds, etags) ==
  [IDs |-> ids, Authors |-> authors, Kinds |-> kinds, ETags |-> etags]

\* event, _ := translate(...); events = append(events, *event): r is the list
\* built and the state so far, t what the translator returned; *event of a nil
\* event panics
Appended(r, t) ==
  IF t.outcome = "ok"
  THEN [outcome |-> "ok", events |-> Append(r.events, t.event), st |-> t.st]
  ELSE [outcome |-> IF t.outcome = "err" THEN "panic" ELSE t.outcome,
        events |-> r.events, st |-> t.st]

\* handlers.go:483-493 and 537-545: the note mapped to an event id, fetched
\* and translated
MappedNote(id, r, f) ==
  IF r.outcome # "ok" \/ ~f.auxOk \/ GetNoteURLByEventID(notes, id) = {} THEN r
  ELSE IF ~f.net \/ FetchNote(CHOOSE u \in GetNoteURLByEventID(notes, id) : TRUE) = {}
  THEN r
  ELSE Appended(r, NoteToEvent(
         CHOOSE n \in FetchNote(CHOOSE u \in GetNoteURLByEventID(notes, id) : TRUE) : TRUE,
         r.st, f))

RECURSIVE MappedNotes(_, _, _)
MappedNotes(ids, r, f) ==
  IF ids = <<>> THEN r ELSE MappedNotes(Tail(ids), MappedNote(Head(ids), r, f), f)

\* handlers.go:511-515
WithMetadata(actor, kinds, r, f) ==
  IF r.outcome # "ok" \/ 0 \notin kinds THEN r
  ELSE Appended(r, ActorToEvent(actor, r.st, f))

\* handlers.go:517-526
RECURSIVE OutboxNotes(_, _, _)
OutboxNotes(ns, r, f) ==
  IF ns = <<>> \/ r.outcome # "ok" THEN r
  ELSE OutboxNotes(Tail(ns), Appended(r, NoteToEvent(Head(ns), r.st, f)), f)

WithNotes(actor, kinds, r, f) ==
  IF r.outcome # "ok" \/ 1 \notin kinds \/ ~f.net THEN r
  ELSE OutboxNotes(FetchNotes(actor.Outbox), r, f)

\* handlers.go:528-532
WithFollows(actor, kinds, r, f) ==
  IF r.outcome # "ok" \/ 3 \notin kinds THEN r
  ELSE Appended(r, ActorFollowsToEvent(actor, r.st, f))

\* handlers.go:500-533, one author
ByAuthor(pubkey, kinds, r, f) ==
  IF r.outcome # "ok" \/ ~f.auxOk \/ GetActorURLByPubKey(r.st.keys, pubkey) = {} THEN r
  ELSE IF ~f.net \/ FetchActor(CHOOSE u \in GetActorURLByPubKey(r.st.keys, pubkey) : TRUE) = {}
  THEN r
  ELSE WithFollows(
         CHOOSE a \in FetchActor(CHOOSE u \in GetActorURLByPubKey(r.st.keys, pubkey) : TRUE) : TRUE,
         kinds,
         WithNotes(
           CHOOSE a \in FetchActor(CHOOSE u \in GetActorURLByPubKey(r.st.keys, pubkey) : TRUE) : TRUE,
           kinds,
           WithMetadata(
             CHOOSE a \in FetchActor(CHOOSE u \in GetActorURLByPubKey(r.st.keys, pubkey) : TRUE) : TRUE,
             kinds, r, f),
           f),
         f)

RECURSIVE ByAuthors(_, _, _, _)
ByAuthors(authors, kinds, r, f) ==
  IF authors = <<>> THEN r
  ELSE ByAuthors(Tail(authors), kinds, ByAuthor(Head(authors), kinds, r, f), f)

\* The events QueryEvents builds for the filter, in the order it appends them
BuiltEvents(filter, st, f) ==
  IF Len(filter.IDs) > 0
  THEN MappedNotes(filter.IDs, [outcome |-> "ok", events |-> <<>>, st |-> st], f)
  ELSE MappedNotes(filter.ETags,
                   ByAuthors(filter.Authors, filter.Kinds,
                             [outcome |-> "ok", events |-> <<>>, st |-> st], f),
                   f)

\* handlers.go:496 return events, nil and 548 return nil, nil
Returned(filter, built) == IF Len(filter.IDs) > 0 THEN built.events ELSE <<>>

\* Storage.QueryEvents(filter): the outcome, the list returned, the state
QueryEventsOf(filter, built) ==
  [outcome |-> built.outcome,
   value |-> IF built.outcome = "ok" THEN Returned(filter, built) ELSE <<>>,
   st |-> built.st]

QueryEvents(filter, st, f) == QueryEventsOf(filter, BuiltEvents(filter, st, f))

QueryEventsAnswered(r) ==
  /\ keys' = r.st.keys
  /\ pending' = pending \cup r.st.saves
  /\ keylog' = keylog \cup r.st.log
  /\ resp' = Resp("QueryEvents", 0, r.outcome, NoBody, <<>>, r.value)
  /\ UNCHANGED <<followers, notes, cache, clock, netvars, qvars, queries>>

\* A subscription of a client is answered
QueryEventsCall(filter, f) ==
  QueryEventsAnswered(QueryEvents(filter, [keys |-> keys, saves |-> {}, log |-> {}], f))

\* The public key of an actor
PubKeyOf(actor) == GetPublicKey(DerivePrivKey(actor))

RelayFilters ==
  {RelayFilter(<<Bridged(NoteA2).id>>, <<>>, {}, <<>>),
   RelayFilter(<<>>, <<PubKeyOf(Alice)>>, {0}, <<>>),
   RelayFilter(<<>>, <<PubKeyOf(Alice)>>, {1}, <<>>),
   RelayFilter(<<>>, <<PubKeyOf(Alice)>>, {3}, <<>>),
   RelayFilter(<<>>, <<PubKeyOf(Alice), PubKeyOf(Bob)>>, {0, 1, 3}, <<>>),
   RelayFilter(<<>>, <<>>, {}, <<Bridged(NoteA2).id>>)}

\* The faults of the relay runs: the INSERT of the actor's keys, of every other
\* key pair or of the second followed address fails; the federation side fails
RelayFaults ==
  {NoFault, Fault(FALSE, TRUE, TRUE, 0), Fault(TRUE, FALSE, TRUE, 0),
   Fault(TRUE, TRUE, TRUE, 2), Fault(TRUE, TRUE, FALSE, 0)}

NextRelay ==
  \/ \E filter \in RelayFilters, f \in RelayFaults : QueryEventsCall(filter, f)
  \/ \E task \in pending, dbok \in BOOLEAN : SaveNoteAsync(task, dbok)
  \/ \E actor \in {Alice, Bob}, dbok \in BOOLEAN : Nip05Handler(actor, dbok)

SpecRelay == InitInbox /\ [][NextRelay]_vars
----------------------------------------------------------------------------
(* The purge of the cache: PostgresCache.SetPurgeFrequency (cache.go:39-45), *)
(* started as a goroutine at main.go:70.  The loop never ends; a pass is    *)
(* one time.Sleep followed by one DELETE, whose error is dropped.           *)

\* How far the clock runs: past the expiration of an entry stored at the start
PurgeHorizon == 11

\* The DELETE deleting the entries expiring now as well
Purge_UpToNow(tbl, now) == {row \in tbl : ~(row.expiration <= now)}

\* line 43: DELETE FROM cache WHERE expiration < $1, $1 = time.Now()
Purge(tbl, now) == {row \in tbl : ~(row.expiration < now)}

PurgeInputs == {N1, M1}

\* The keys of the entries of tbl that are not in kept
Deleted(tbl, kept) ==
  SelectSeq(CacheKeys(N1) \o CacheKeys(M1),
            LAMBDA k : \E row \in tbl \ kept : row.key = k)

\* lines 41-44: one turn of the loop; dbok: whether the DELETE succeeds.
\* resp.arg: the keys the pass deleted
PurgePass(dbok) ==
  /\ cache' = IF dbok THEN Purge(cache, clock) ELSE cache
  /\ resp' = Resp("SetPurgeFrequency", 0, IF dbok THEN "ok" ELSE "error", NoBody,
                  Deleted(cache, cache'), <<>>)
  /\ UNCHANGED <<keys, followers, notes, clock, pending, netvars, qvars, queries, keylog>>

\* Time passes
PurgeTick ==
  /\ clock < PurgeHorizon
  /\ clock' = clock + 1
  /\ UNCHANGED <<keys, followers, notes, cache, pending, netvars, qvars, queries, resp,
                 keylog>>

NextPurge ==
  \/ \E e \in PurgeInputs, failAt \in 0..2 : CacheEventCall(e, failAt)
  \/ \E dbok \in BOOLEAN : PurgePass(dbok)
  \/ PurgeTick

SpecPurge == InitCache /\ [][NextPurge]_vars

\* The goroutine of main.go:70 keeps running, and its DELETE does not fail for ever
FairSpecPurge == SpecPurge /\ WF_vars(PurgePass(TRUE))
----------------------------------------------------------------------------
(* The aggregator against a peer that holds a long timeline: the sends of   *)
(* nostr.go:264-267 on the channel of line 232.                             *)

\* The i-th note of the timeline of P1
Timeline(i) == MkEvent(P1, i, 1, <<>>, <<"post">>)

\* A peer's answer with one event more than max*len(n.peers) for max = 1
LongStore == [i \in 1..(NumPeers + 1) |-> Timeline(i)]

InitStream ==
  /\ EmptyDB
  /\ relayUp \in [Peers -> BOOLEAN]
  /\ relayStore \in [Peers -> {<<>>, <<N1>>, LongStore}]
  /\ \A r \in Peers : ~relayUp[r] => relayStore[r] = <<>>
  /\ QInit
  /\ queries = 0
  /\ resp = NoResp
  /\ keylog = {}

NextStream ==
  \/ \E max \in 1..2 : QuerySyncDirect(max)
  \/ QuerySyncStep

SpecStream == InitStream /\ [][NextStream]_vars
----------------------------------------------------------------------------
(* Inbox requests served concurrently: net/http runs Handler.InboxHandler   *)
(* in one goroutine per request.  A Follow or an Undo touches the followers *)
(* table in at most one statement (postgresql.go:87-102), which the         *)
(* database executes atomically; the rest of the handler works on the       *)
(* request's own body.                                                      *)

\* How many requests are in flight or served in one run of concurrent requests
MaxBatch == 3

BatchOp == "inbox batch"

\* The goroutine of the n-th request of the run; f: the faults it will meet
RequestTask(n, body, f) == [kind |-> "Request", n |-> n, body |-> body, f |-> f]

Requests == {task \in pending : task.kind = "Request"}

\* The followers table after the handler served the request alone on tbl:
\* lines 86-102 and 124-153 with the decoders of the branches
Applied(tbl, body, f) ==
  IF DecodeBase(body).err THEN tbl
  ELSE IF DecodeBase(body).Type \in {"Create", "Follow"}
  THEN IF /\ ~DecodeCreateBase(body).err
          /\ DecodeCreateBase(body).ObjectType = "Person"
          /\ ~DecodeFollow(body).err
          /\ f.failAt # 1
       THEN FollowNostrPubKey(tbl, DecodeFollow(body).Actor,
                              LastSegment(DecodeFollow(body).Object))
       ELSE tbl
  ELSE IF DecodeBase(body).Type = "Undo"
  THEN IF /\ ~DecodeCreateBase(body).err
          /\ DecodeCreateBase(body).ObjectType = "Person"
          /\ ~DecodeCreateFollow(body).err
          /\ f.failAt # 1
       THEN UnfollowNostrPubKey(tbl, DecodeCreateFollow(body).Actor,
                                LastSegment(DecodeCreateFollow(body).Object))
       ELSE tbl
  ELSE tbl

\* A request arrives while others are in flight: its goroutine is started.
\* resp.arg: the followers table when the run began, resp.value: its requests
InboxAccept(body, f) ==
  /\ IF resp.op = BatchOp /\ Requests # {}
     THEN /\ Len(resp.value) < MaxBatch
          /\ resp' = [resp EXCEPT !.value = Append(@, [body |-> body, f |-> f])]
     ELSE resp' = Resp(BatchOp, 0, "running", NoBody, followers,
                       <<[body |-> body, f |-> f]>>)
  /\ pending' = pending \cup {RequestTask(Len(resp'.value), body, f)}
  /\ UNCHANGED <<keys, followers, notes, cache, clock, netvars, qvars, queries, keylog>>

\* The tables and the goroutines after the request of task came to o
Served(task, o) ==
  /\ keys' = o.keys
  /\ followers' = o.followers
  /\ notes' = o.notes
  /\ cache' = o.cache
  /\ pending' = (pending \ {task}) \cup o.saves
  /\ keylog' = keylog \cup o.log
  /\ UNCHANGED <<clock, netvars, qvars, queries, resp>>

\* The handler of a request in flight runs to its answer
InboxServe(task) ==
  /\ task \in Requests
  /\ \E sel \in SelChoices(task.body) : Served(task, Inbox(task.body, task.f, sel))

BatchBodies ==
  {FollowActivity(Alice, P2), PersonActivity("Follow", Alice, P1),
   UndoActivity("Follow", PubActor(P2, ServiceURL), P1)}
  \cup {UndoActivity("Person", PubActor(p, ServiceURL), P1) : p \in {P1, P2}}

BatchFaults == {NoFault, Fault(TRUE, TRUE, TRUE, 1)}

\* The contact list of P1 is saved between the runs of requests
NextBatch ==
  \/ \E body \in BatchBodies, f \in BatchFaults : InboxAccept(body, f)
  \/ \E task \in pending : InboxServe(task)
  \/ \E dbok \in BOOLEAN : Requests = {} /\ GetFollowersByPubKeyFound(K1, dbok)

SpecBatch == InitInbox /\ [][NextBatch]_vars
----------------------------------------------------------------------------
(* The connection loop of QuerySync (nostr.go:235-270) on a service with    *)
(* more peers than the loop connects: calls one after the other, each with  *)
(* its own maps.                                                            *)

\* len(n.peers) of these runs: one peer more than the ceiling of line 238
DialPeers == MaxRelays + 1

InitDial ==
  /\ EmptyDB
  /\ relayUp \in [1..DialPeers -> BOOLEAN]
  /\ relayStore = [r \in 1..DialPeers |-> IF relayUp[r] /\ r = 1 THEN <<N1>> ELSE <<>>]
  /\ QInit
  /\ queries = 0
  /\ resp = NoResp
  /\ keylog = {}

NextDial ==
  \/ QuerySyncDirect(1)
  \/ QuerySyncStep

SpecDial == InitDial /\ [][NextDial]_vars
----------------------------------------------------------------------------
(* Properties.                                                              *)

Range(s) == {s[i] : i \in 1..Len(s)}

NoDupIds(s) == \A i, j \in 1..Len(s) : i # j => s[i].id # s[j].id

\* The events a connected peer sent for the filter of the call.
FromConnected == UNION {Range(RelayQuerySync(r, qfilter)) : r \in connectedRelays}

\* The distinct events the peers that can connect hold for the filter of the call.
FromHealthy == UNION {Range(RelayQuerySync(r, qfilter)) : r \in {x \in Peers : relayUp[x]}}

\* C1: the list QuerySync returns holds no two events with the same id and at most
\* max events, whatever the peers returned.
C1_ReturnedListIsDedupedAndCapped ==
  qpc = "done" => NoDupIds(filteredEvents) /\ Len(filteredEvents) <= qmax

\* C1 witness: a call returned max = 3 events although two connected peers sent the
\* same event.
C1_Witness ==
  /\ qpc = "done" /\ qmax = 3 /\ Len(filteredEvents) = 3
  /\ \E r1, r2 \in connectedRelays :
       r1 # r2 /\ Range(relayStore[r1]) \cap Range(relayStore[r2]) # {}

\* C2: with fewer than max distinct events at the deadline QuerySync returns the
\* events received so far: it does not panic, does not block for ever, and its list
\* holds only events that a peer returned.
C2_PartialResultAtDeadline ==
  /\ qpc \notin {"panic", "blocked"}
  /\ Range(filteredEvents) \subseteq FromConnected

\* C3: with at most 5 peers, when the peers that can connect hold at least max
\* distinct events, QuerySync returns exactly max distinct events of theirs before
\* the overall deadline: it never panics, never waits with fewer than max events
\* for a deadline that has to pass, and what it returns is max distinct events.
C3_EnoughEventsAreReturnedInTime ==
  (NumPeers <= MaxRelays /\ qpc # "idle" /\ Cardinality(FromHealthy) >= qmax) =>
    /\ qpc \notin {"panic", "blocked"}
    /\ (qpc = "consume" /\ ConsumeCond) => (events # <<>> /\ ~CtxDone)
    /\ qpc = "done" =>
         /\ Len(filteredEvents) = qmax
         /\ NoDupIds(filteredEvents)
         /\ Range(filteredEvents) \subseteq FromHealthy
         /\ ~CtxDone

C5_GetEventByIDReturnsTheEventOrFails ==
  (resp.op = "GetEventByID" /\ resp.stage # "running") =>
    /\ resp.stage \in {"hit", "event", "not found"}
    /\ resp.stage = "hit" => queries = 0 /\ resp.value[1].id = resp.arg
    /\ resp.stage # "hit" =>
         /\ queries = 1 /\ qmax = 1
         /\ qfilter = MkFilter({resp.arg}, {}, {}, FALSE, 0)

\* C6: GetMetadataByPubKey and GetFollowingByPubKey answer a cache hit without a
\* query, issue one query with max 1 on a miss, and return the event or an
\* explicit failure; they do not crash.
C6_MetadataAndFollowingAnswerOrFail ==
  (resp.op \in {"GetMetadataByPubKey", "GetFollowingByPubKey"}
     /\ resp.stage # "running") =>
    /\ resp.stage \in {"hit", "event", "not found", "error"}
    /\ resp.stage = "hit" => queries = 0
    /\ resp.stage \in {"event", "not found"} => queries = 1 /\ qmax = 1

\* C7: an inbox activity of type Create or Follow whose object has type Person and
\* names the target .../<p> is answered 200 and leaves exactly one edge (p, actor).
C7_PersonFollowIsAnswered200WithOneEdge ==
  \A t \in {"Create", "Follow"} :
    (resp.op = "inbox" /\ resp.body = PersonActivity(t, Alice, P1))
      => resp.status = 200 /\ CopiesIn(<<P1, Alice>>, followers) = 1

\* C8: after an Undo that carries a Follow object of actor a and target .../<p>
\* was answered 200, there is no edge (p, a).
C8_UndoOfAFollowRemovesTheEdge ==
  \A a \in Followers :
    (resp.op = "inbox" /\ resp.body = UndoActivity("Follow", a, P1)
       /\ resp.status = 200)
      => ~BagIn(<<P1, a>>, followers)

\* C9: a Delete for a note url with a mapping to event E, every statement
\* succeeding, is answered 200; afterwards the url has no mapping and the cache
\* no entry 1:<E>; the mappings of other urls and the cache entries of other
\* events are still there.
C9_DeleteRemovesTheMappingAndItsCacheEntry ==
  [][\A E \in NoteIDsByUrl(notes, NoteUrl1) :
       InboxHandler(DeleteActivity(Alice, NoteUrl1), NoFault) =>
         /\ resp'.status = 200
         /\ NoteIDsByUrl(notes', NoteUrl1) = {}
         /\ CacheLookup(cache', NoteKey(E)) = {}
         /\ \A row \in notes : row.pub_note_url # NoteUrl1 => row \in notes'
         /\ \A row \in cache :
              row.key \notin {NoteKey(x) : x \in NoteIDsByUrl(notes, NoteUrl1)}
                => row \in cache']_vars

\* The stages at which the inbox answers 400 for a body it cannot decode.
DecodeStages ==
  {"decode base", "decode create", "decode note", "decode follow", "decode delete",
   "decode undo", "decode undo follow"}

\* C10: a request the inbox answers 400 at a decoding stage leaves the keys,
\* followers, notes and cache tables as they were.
C10_DecodeFailureChangesNoTable ==
  [][\A f \in Faults :
       (/\ resp'.op = "inbox" /\ resp'.status = 400 /\ resp'.stage \in DecodeStages
        /\ InboxHandler(resp'.body, f))
         => UNCHANGED <<keys, followers, notes, cache>>]_vars

\* A Create of a note was answered 400 at the decoding of the note while the
\* tables held keys, notes and followers.
C10_Witness ==
  /\ resp.op = "inbox" /\ resp.status = 400 /\ resp.stage = "decode note"
  /\ keys # {} /\ notes # {} /\ followers # EmptyBag

\* The bodies with which the handler reaches the persistence call of its branch
\* (DeleteNoteByUrl, UnfollowNostrPubKey; no body reaches FollowNostrPubKey).
ReachesPrimary(body) ==
  /\ body.valid
  /\ \/ body.type = "Delete" /\ body.object.j = "string"
     \/ /\ body.type = "Undo" /\ body.object.j = "object"
        /\ body.object.type = "Person" /\ body.object.inner.j = "string"

\* A statement of the persistence call of the branch fails: DeleteNoteByUrl runs
\* three statements, UnfollowNostrPubKey one.
PrimaryFails(body, f) ==
  /\ ReachesPrimary(body)
  /\ f.failAt \in 1..(IF body.type = "Delete" THEN 3 ELSE 1)

\* C11: every inbox request is answered with one of 200, 400, 500: 500 when a
\* statement of the branch's persistence call fails, 400 when a decoding stage
\* fails, and 200 only when neither happened.
C11_OneStatusAndNo200AfterAFailure ==
  [][\A f \in Faults :
       (resp'.op = "inbox" /\ InboxHandler(resp'.body, f)) =>
         /\ resp'.status \in {200, 400, 500}
         /\ PrimaryFails(resp'.body, f) => resp'.status = 500
         /\ resp'.stage \in DecodeStages => resp'.status = 400
         /\ resp'.status = 200 =>
              /\ resp'.stage \notin DecodeStages
              /\ ~PrimaryFails(resp'.body, f)]_vars

\* An unfollow whose DELETE failed was answered 500 while edges and mappings
\* were stored.
C11_Witness ==
  /\ resp.op = "inbox" /\ resp.status = 500 /\ resp.stage = "unfollow"
  /\ followers # EmptyBag /\ notes # {}

\* C12: when CacheEvent(e) succeeds on a cache that holds e under every key of
\* e already, the cache afterwards holds exactly one entry for each key of e
\* (one key for kinds 0 and 3, two distinct keys for kind 1), and the
\* expiration of each is the time of this later call plus the ten days.
C12_CachingAgainKeepsOneEntryAndRenewsIt ==
  [][\A e \in CacheInputs :
       (/\ CacheKeys(e) # <<>>
        /\ \A k \in Range(CacheKeys(e)) :
             \E row \in cache : row.key = k /\ row.value = MarshalEvent(e)
        /\ CacheEventCall(e, 0)) =>
         /\ Cardinality(Range(CacheKeys(e))) = IF e.kind = 1 THEN 2 ELSE 1
         /\ Len(CacheKeys(e)) = Cardinality(Range(CacheKeys(e)))
         /\ \A k \in Range(CacheKeys(e)) :
              /\ Cardinality({row \in cache' : row.key = k}) = 1
              /\ \A row \in cache' : row.key = k =>
                   /\ row.expiration = clock + RetentionDays
                   /\ row.value = MarshalEvent(e)
         /\ Cardinality(cache') = Cardinality(cache)]_vars

\* A note was cached a second time, later than the first time, and both its
\* entries expire ten days after the second call.
C12_Witness ==
  /\ resp.op = "CacheEvent" /\ resp.stage = "ok" /\ resp.value = <<N1>>
  /\ resp.arg = CacheKeys(N1)
  /\ clock > 0
  /\ \A k \in Range(CacheKeys(N1)) :
       \E row \in cache : row.key = k /\ row.expiration = clock + RetentionDays

\* C13: CacheEvent stores kind 0 under 0:<pubkey>, kind 1 under 1:<id> and
\* 1:<pubkey>:<id>, kind 3 under 3:<pubkey>; after a successful CacheEvent(e) on
\* a cache without an entry for these keys, GetMetadata(e.pubkey),
\* GetNoteByID(e.id) or GetContactList(e.pubkey), by the kind of e, returns e;
\* an event of another kind is answered with an error and the cache is unchanged.
C13_KeySchemeAndLookupRoundTrip ==
  [][\A e \in CacheInputs :
       CacheEventCall(e, 0) =>
         /\ e.kind = 0 => Range(CacheKeys(e)) = {<<"0", ":">> \o e.pubkey}
         /\ e.kind = 1 => Range(CacheKeys(e)) =
                            {<<"1", ":">> \o e.id, <<"1", ":">> \o e.pubkey \o <<":">> \o e.id}
         /\ e.kind = 3 => Range(CacheKeys(e)) = {<<"3", ":">> \o e.pubkey}
         /\ (e.kind \in {0, 1, 3} /\ resp'.arg = <<>>) =>
              /\ resp'.stage = "ok"
              /\ {row.key : row \in cache'} = {row.key : row \in cache} \cup Range(CacheKeys(e))
              /\ e.kind = 0 => GetMetadata(cache', e.pubkey, TRUE) = [err |-> FALSE, events |-> {e}]
              /\ e.kind = 1 => GetNoteByID(cache', e.id, TRUE) = [err |-> FALSE, events |-> {e}]
              /\ e.kind = 3 => GetContactList(cache', e.pubkey, TRUE) = [err |-> FALSE, events |-> {e}]
         /\ e.kind \notin {0, 1, 3} => resp'.stage = "error" /\ cache' = cache]_vars

\* A contact list was cached into a cache that held the metadata of the same
\* subject, and both are found under their own keys.
C13_Witness ==
  /\ resp.op = "CacheEvent" /\ resp.stage = "ok" /\ resp.value = <<K1>> /\ resp.arg = <<>>
  /\ GetContactList(cache, P1, TRUE).events = {K1}
  /\ GetMetadata(cache, P1, TRUE).events = {M1}

\* The cached notes of a subject: the events stored under 1:<pubkey>:<id>
NotesOf(tbl, pubkey) ==
  {UnmarshalEvent(row.value) :
     row \in {x \in tbl : HasPrefix(x.key, <<"1", ":">> \o pubkey \o <<":">>)}}

\* C14: GetNotesByPubKey(p) returns exactly the notes cached under
\* 1:<p>:<id> (there are fewer than 100), newest first; so after CacheEvent(e)
\* for a note e, GetNotesByPubKey(e.pubkey) contains e.
C14_CachedNotesAreListedForTheirAuthor ==
  \A pubkey \in {P1, P2} : \A s \in GetNotesByPubKey(cache, pubkey) :
    /\ Range(s) = NotesOf(cache, pubkey)
    /\ \A i, j \in 1..Len(s) : i < j => s[i].created_at >= s[j].created_at


C16_ReturnedNotesAreCachedAndFoundLater ==
  \A e \in {N1, N2} :
    (resp.op = NotesOp /\ resp.stage = "ok" /\ e \in Range(resp.value)) ~>
      (/\ \A k \in Range(CacheKeys(e)) : \E row \in cache : row.key = k
       /\ \A s \in GetNotesByPubKey(cache, e.pubkey) : e \in Range(s))

\* C17: every GetFollowersByPubKey(p) is answered with the stored edges of p
\* or with the error of the persistence, also when the aggregator found no
\* contact list: the edges of the returned contact list are stored, the edges
\* stored before are kept, and the answer lists exactly the actors stored for p.
C17_FollowersAreSavedAndListed ==
  [][(/\ resp.op = FollowersOp /\ resp.stage = "running"
      /\ resp'.op = FollowersOp /\ resp'.stage # "running") =>
       /\ resp'.stage \in {"ok", "error"}
       /\ \A row \in DOMAIN followers : BagIn(row, followers')
       /\ resp'.stage = "ok" =>
            /\ Range(resp'.value) = GetFollowersByPubKey(followers', resp.arg)
            /\ Len(resp'.value) = Cardinality(Range(resp'.value))
            /\ \A i \in 1..Len(filteredEvents) : i = 1 =>
                 \A v \in Range(PTagValues(filteredEvents[i].tags)) :
                   BagIn(<<filteredEvents[i].pubkey, PubActor(v, ServiceURL)>>, followers')]_vars

\* The event NoteToEvent(note) produces on the tables of the state
EventOf(note, f) == NoteToEvent(note, [keys |-> keys, saves |-> {}, log |-> {}], f)

\* The step is the delivery of a Create of the note under the faults f
Delivered(note, f) ==
  /\ resp'.op = "inbox" /\ resp'.body = CreateNote(note, TRUE)
  /\ InboxHandler(resp'.body, f)

ETags(tags) == SelectSeq(tags, LAMBDA t : t[1] = "e")
PTagsOf(tags) == SelectSeq(tags, LAMBDA t : t[1] = "p")

\* The goroutines the step started for the url
StartedFor(url) == {task \in pending' \ pending : task.url = url}

\* C18: when a reply is translated while a mapping (E, url) is stored for the
\* url it replies to, the event carries the tag ("e", E, relay) for such an E,
\* and the parent is neither fetched nor translated.
C18_StoredParentGivesItsEventId ==
  [][(/\ Delivered(NoteB, NoFault)
      /\ \E row \in notes : row.pub_note_url = NoteB.InReplyTo) =>
       /\ resp'.status = 200
       /\ \E row \in notes :
            /\ row.pub_note_url = NoteB.InReplyTo
            /\ <<"e", row.nostr_event_id, RelayURL>> \in
                 Range(EventOf(NoteB, NoFault).event.tags)
       /\ StartedFor(NoteB.InReplyTo) = {}]_vars

\* C19: when a reply is translated while no mapping is stored for the url it
\* replies to, the parent is fetched and translated and the event carries the
\* tag ("e", id of the parent's event, relay); when the parent cannot be
\* fetched the event is produced without an "e" tag.  The request is answered.
C19_UnknownParentIsFetchedAndTranslated ==
  [][\A f \in {NoFault, Fault(TRUE, TRUE, FALSE, 0)} :
       (/\ Delivered(NoteB, f)
        /\ ~\E row \in notes : row.pub_note_url = NoteB.InReplyTo) =>
         /\ resp'.status = 200
         /\ IF f.net /\ FetchNote(NoteB.InReplyTo) # {}
            THEN \E parent \in FetchNote(NoteB.InReplyTo) :
                   /\ <<"e", EventOf(parent, f).event.id, RelayURL>> \in
                        Range(EventOf(NoteB, f).event.tags)
                   /\ StartedFor(parent.Id) # {}
            ELSE ETags(EventOf(NoteB, f).event.tags) = <<>>]_vars

\* The addresses of a note that are neither the public collection nor a
\* followers collection
Addressees(note) ==
  SelectSeq(note.CC \o note.To,
            LAMBDA a : a # Public /\ ~HasSuffix(a, <<"/", "followers">>))

\* C20: the event of a translated note carries exactly one "p" tag per
\* addressee in cc followed by to, in this order, with the public key derived
\* for the addressee, which is never empty; the public and followers
\* collections get none.
C20_OnePTagPerAddresseeWithItsKey ==
  [][\A note \in {NoteA, NoteB}, f \in KeyFaults :
       (Delivered(note, f) /\ resp'.status = 200) =>
         /\ PTagsOf(EventOf(note, f).event.tags) =
              [i \in 1..Len(Addressees(note)) |->
                 <<"p", GetPublicKey(DerivePrivKey(Addressees(note)[i])), RelayURL>>]
         /\ \A t \in Range(PTagsOf(EventOf(note, f).event.tags)) : t[2] # <<>>]_vars

\* The tables of the state, as the translators take them
Tables == [keys |-> keys, saves |-> {}, log |-> {}]

\* The followed addresses of the actor whose key pair can be had under f
Resolved(actor, f) ==
  {i \in 1..Len(Follows(actor, f)) : f.auxOk /\ f.failAt # i}

\* C21: the contact list built for a known actor in a subscription for kind 3
\* is of kind 3 and its tags are one ("p", public key, relay) per followed
\* address whose key pair can be had, in the order of the addresses: an
\* address that cannot be resolved leaves no tag, empty or otherwise.
C21_ContactListHasOneTagPerResolvedAddress ==
  [][\A f \in RelayFaults :
       (/\ QueryEventsCall(RelayFilter(<<>>, <<PubKeyOf(Alice)>>, {3}, <<>>), f)
        /\ f.auxOk /\ f.net /\ GetActorURLByPubKey(keys, PubKeyOf(Alice)) = {Alice}
        /\ ActorFollowsToEvent(ActorAlice, Tables, f).outcome = "ok") =>
         /\ ActorFollowsToEvent(ActorAlice, Tables, f).event.kind = 3
         /\ Len(ActorFollowsToEvent(ActorAlice, Tables, f).event.tags) =
              Cardinality(Resolved(ActorAlice, f))
         /\ \A t \in Range(ActorFollowsToEvent(ActorAlice, Tables, f).event.tags) :
              /\ t # <<>>
              /\ \E i \in Resolved(ActorAlice, f) :
                   t = <<"p", PubKeyOf(Follows(ActorAlice, f)[i]), RelayURL>>]_vars

\* C29: QueryEvents returns the events it built for the filter, whether the
\* filter names IDs, Authors with kinds or "e" tags, and it skips an event
\* whose translation failed: the call never panics.
C29_QueryEventsReturnsWhatItBuilt ==
  [][\A filter \in RelayFilters, f \in RelayFaults :
       QueryEventsCall(filter, f) =>
         /\ resp'.stage = "ok"
         /\ resp'.value = BuiltEvents(filter, Tables, f).events]_vars

\* C22: the event e of a translated note n has created_at = n.published, its
\* public key is stored for n.attributedTo, and when n replies to a url for
\* which a mapping (E, url) is stored, e carries the reply tag ("e", E, relay)
\* of such an E; the goroutine writing (e.id, n.id) is started.
C22_EventKeepsTimeAuthorAndParentOfItsNote ==
  [][\A note \in {NoteA, NoteB} :
       (Delivered(note, NoFault) /\ resp'.status = 200) =>
         /\ EventOf(note, NoFault).event.created_at = note.Published
         /\ GetActorURLByPubKey(keys', EventOf(note, NoFault).event.pubkey) =
              {note.AttributedTo}
         /\ \A url \in {note.InReplyTo} \ {<<>>} :
              NoteIDsByUrl(notes, url) # {} =>
                \E E \in NoteIDsByUrl(notes, url) :
                  ETags(EventOf(note, NoFault).event.tags) = <<<<"e", E, RelayURL>>>>
         /\ SaveNoteTask(EventOf(note, NoFault).event.id, note.Id) \in pending']_vars

\* C23: a Create of a Note that decodes is answered with status 200 whether or
\* not its translation succeeds; a failed translation changes nothing but the
\* log, and a successful one starts the goroutine that persists the mapping of
\* the event's id to the note's url.
C23_CreateNoteIsAnswered200WhateverTheTranslation ==
  [][\A note \in {NoteA, NoteB}, f \in KeyFaults :
       Delivered(note, f) =>
         /\ resp'.status = 200
         /\ EventOf(note, f).outcome = "ok" =>
              SaveNoteTask(EventOf(note, f).event.id, note.Id) \in pending'
         /\ EventOf(note, f).outcome = "err" => StartedFor(note.Id) = {}]_vars

\* C24: the keys table is append-only and insert-or-ignore: no step removes or
\* changes a row, no two rows share a public key, and every actor for which
\* GetNostrKeysByActor has returned, however often, has exactly one row.
C24_KeysTableIsAppendOnlyWithOneRowPerActor ==
  [][/\ keys \subseteq keys'
     /\ \A r1, r2 \in keys' : r1.nostr_pubkey = r2.nostr_pubkey => r1 = r2
     /\ \A l \in keylog' :
          Cardinality({row \in keys' : row.pub_actor_url = l.actor}) = 1]_vars

\* GetNostrKeysByActor returned again for an actor whose row was stored, while
\* the table holds the row of another actor too
C24_Witness ==
  /\ \E l \in keylog : l.stored /\ \E row \in keys : row.pub_actor_url = l.actor
  /\ Cardinality(keys) >= 2

\* The activities no branch of the handler acts on: the type is none of
\* Create, Follow, Delete, Undo, or it is an Undo whose decoded object is not
\* of the type the handler unfollows for
Unhandled(body) ==
  /\ ~DecodeBase(body).err
  /\ \/ DecodeBase(body).Type \notin {"Create", "Follow", "Delete", "Undo"}
     \/ /\ DecodeBase(body).Type = "Undo"
        /\ ~DecodeCreateBase(body).err
        /\ DecodeCreateBase(body).ObjectType # "Person"

Expired == {row \in cache : row.expiration < clock}

\* C26: a purge pass deletes exactly the entries whose expiration is earlier
\* than the time of the pass and leaves every other entry as it was, a pass
\* whose DELETE fails changes nothing, and as the passes go on every entry that
\* has expired is eventually gone from the cache or stored anew: again and
\* again the cache holds no expired entry.
C26_PurgeDeletesExactlyTheExpiredAndEventuallyAll ==
  /\ [][\A dbok \in BOOLEAN :
          PurgePass(dbok) =>
            /\ cache' \subseteq cache
            /\ \A row \in cache :
                 row \in cache' <=> (~dbok \/ row.expiration >= clock)]_vars
  /\ []<>(Expired = {})

\* A pass at the time an entry expires deleted an entry that had expired and
\* kept that one
C26_Witness ==
  /\ resp.op = "SetPurgeFrequency" /\ resp.stage = "ok" /\ resp.arg # <<>>
  /\ \E row \in cache : row.expiration = clock

\* C27: the sends of a connected peer's events on the channel never block the
\* call, however many events the peer returns: no call of QuerySync is stopped
\* in the connection loop at a send on the full channel (a state it cannot
\* leave, nothing receiving before the consumer loop starts).
C27_StreamingNeverBlocksTheQuery == qpc # "blocked"

\* C28: when a Delete of a note url is answered, every statement succeeding,
\* after a Create of the note was answered (the write of its mapping was
\* started, and may have run), the Delete does not fail, and afterwards no
\* mapping of the url is stored and no write that would store one is left to
\* run.
C28_DeleteAfterCreateLeavesNoMapping ==
  [][(/\ resp'.op = "inbox" /\ resp'.body = DeleteActivity(Alice, NoteUrl1)
      /\ InboxHandler(resp'.body, NoFault)
      /\ \/ \E task \in pending : task.kind = "SaveNote" /\ task.url = NoteUrl1
         \/ NoteIDsByUrl(notes, NoteUrl1) # {}) =>
       /\ resp'.status = 200
       /\ NoteIDsByUrl(notes', NoteUrl1) = {}
       /\ ~\E task \in pending' : task.kind = "SaveNote" /\ task.url = NoteUrl1]_vars

\* C30: the list NostrService.GetNotesByPubKey returns holds no two events
\* with the same id, also when the aggregator returned notes that the cache
\* holds already.
C30_ReturnedNotesHaveDistinctIds ==
  (resp.op = NotesOp /\ resp.stage = "ok") => NoDupIds(resp.value)

\* A call returned notes of the aggregator that were cached under both of
\* their keys before the goroutine of this call ran
C30_Witness ==
  /\ resp.op = NotesOp /\ resp.stage = "ok" /\ resp.value # <<>>
  /\ CacheTasks(resp.value) \subseteq pending
  /\ \A e \in Range(resp.value) :
       \A k \in Range(CacheKeys(e)) : \E row \in cache : row.key = k

\* C31: after a Delete of a note url answered 200, no event whose id was
\* mapped to the url is left in the cache: neither under 1:<E> nor under
\* 1:<P>:<E>, so no read of the cache serves it.
C31_DeletedNoteLeavesTheCache ==
  [][(/\ resp'.op = "inbox" /\ resp'.body = DeleteActivity(Alice, NoteUrl1)
      /\ resp'.status = 200
      /\ \E f \in Faults : InboxHandler(resp'.body, f)) =>
       \A e \in BridgedEvents :
         e.id \in NoteIDsByUrl(notes, NoteUrl1) =>
           /\ GetNoteByID(cache', e.id, TRUE).events = {}
           /\ \A k \in Range(CacheKeys(e)) : ~\E row \in cache' : row.key = k]_vars

\* The followers table after the requests were served one after the other in
\* the order given
RECURSIVE ApplyAll(_, _, _)
ApplyAll(tbl, reqs, order) ==
  IF order = <<>> THEN tbl
  ELSE ApplyAll(Applied(tbl, reqs[Head(order)].body, reqs[Head(order)].f), reqs,
                Tail(order))

\* The orders of n requests
Orders(n) == {s \in [1..n -> 1..n] : \A i, j \in 1..n : i # j => s[i] # s[j]}

C33_AnAttemptMayRunToItsOwnTimeout ==
  \A r \in Peers :
    (qpc = "connect" /\ ConnectCond /\ Untried(r) /\ ~relayUp[r] /\ ~CtxDone) =>
      ENABLED (QConnectFail(r) /\ elapsed' = elapsed + AttemptTimeout)

\* C34: in a call of QuerySync every attempt is on a peer that has neither
\* failed nor connected in this call, so no peer is tried twice; at most 5
\* peers are connected; the connection loop goes on only while its condition
\* holds and ends when every peer was tried, 5 peers are connected or max
\* events are collected; and a new call starts with both maps empty, whatever
\* failed before.
C34_PeersAreTriedOncePerCallUnderTheCeiling ==
  [][/\ \A r \in ServicePeers :
          (QConnectOk(r) \/ QConnectFail(r)) =>
            /\ r \notin connectedRelays /\ r \notin DOMAIN failedConnections
            /\ ConnectCond
     /\ Cardinality(connectedRelays') <= MaxRelays
     /\ connectedRelays' \cap DOMAIN failedConnections' = {}
     /\ \A r \in DOMAIN failedConnections' : failedConnections'[r] = 1
     /\ (qpc = "connect" /\ qpc' = "consume") =>
          \/ connectedRelays \cup DOMAIN failedConnections = ServicePeers
          \/ Cardinality(connectedRelays) = MaxRelays
          \/ Len(events) >= qmax
     /\ (qpc = "connect" /\ ~ConnectCond) => qpc' = "consume"
     /\ (QIdle /\ qpc' = "connect") =>
          connectedRelays' = {} /\ failedConnections' = <<>>]_vars

\* The loop ended with 5 peers connected and a peer left untried
C34_Witness ==
  /\ qpc = "consume" /\ Cardinality(connectedRelays) = MaxRelays
  /\ \E r \in ServicePeers : Untried(r)

\* C35: the private key GetNostrKeysByActor returns for an actor is the hex
\* encoding of the HMAC digest of the actor url under the server's key
\* material: the encoding of the digest alone, of the same length for every
\* actor, holding none of the bytes of the url.
C35_PrivateKeyIsTheDigestOfTheActor ==
  \A l \in keylog :
    /\ l.privkey = HexEncode(<<HmacDigest(ServerSecret, l.actor)>>)
    /\ Len(l.privkey) = 1
    /\ \A i \in 1..Len(l.actor) : HexEncode(<<l.actor[i]>>)[1] \notin Range(l.privkey)

\* C36: when CacheEvent(e) succeeds while a key of e holds an entry already,
\* the entry of each key of e afterwards has the time of e and expires ten days
\* after the call, as the entry of a fresh insert would.
C36_ConflictUpdatesTimeAndExpiration ==
  [][\A e \in CacheInputs :
       (/\ \E k \in Range(CacheKeys(e)) : \E row \in cache : row.key = k
        /\ CacheEventCall(e, 0)) =>
         \A k \in Range(CacheKeys(e)) :
           \A row \in cache' : row.key = k =>
             /\ row.time = e.created_at
             /\ row.expiration = clock + RetentionDays]_vars

\* The timestamp of the newest of a non-empty set of events
Newest(evs) == CHOOSE t \in {e.created_at : e \in evs} : \A e \in evs : e.created_at <= t

\* C37: every call of NostrService.GetNotesByPubKey whose cache read succeeds
\* starts a query, whether the cache holds notes of the subject or not, with
\* the max of the notes call, the subject as the one author, kind 1, and a
\* since bound that is the time of the newest note cached for the subject, or
\* the floor of 1971 when no note of the subject is cached.
C37_NotesCallAlwaysQueriesSinceTheNewestCachedNote ==
  [][\A pubkey \in {P1, P2} :
       ServiceGetNotesByPubKeyCall(pubkey, TRUE) =>
         /\ qpc' = "connect" /\ queries' = 1
         /\ qmax' = NotesMax
         /\ qfilter'.Authors = {pubkey} /\ qfilter'.Kinds = {1}
         /\ qfilter'.hasSince
         /\ qfilter'.Since = IF NotesOf(cache, pubkey) = {} THEN Since1971
                             ELSE Newest(NotesOf(cache, pubkey))]_vars

\* The parent the translation of the note would go on with: the note served
\* for the url it replies to, when no mapping is stored for that url
UnmappedParent(note) ==
  IF \/ note.InReplyTo = <<>>
     \/ \E row \in notes : row.pub_note_url = note.InReplyTo
  THEN {}
  ELSE FetchNote(note.InReplyTo)

\* The notes reached from the note in n steps along UnmappedParent
RECURSIVE AncestorsAt(_, _)
AncestorsAt(note, n) ==
  IF n = 0 THEN {note}
  ELSE UNION {UnmappedParent(a) : a \in AncestorsAt(note, n - 1)}

\* The chain of the note never ends: it leads back to a note it went through
Endless(note) == AncestorsAt(note, Cardinality(RemoteNotes) + 1) # {}

Ancestors(note) == UNION {AncestorsAt(note, n) : n \in 1..Cardinality(RemoteNotes)}

\* C38: the translation of a delivered note ends exactly when the chain of its
\* unmapped, fetchable ancestors is finite and without a cycle, and then every
\* ancestor has been translated once (one goroutine stores its mapping); on a
\* chain that leads back to a note it went through the recursion does not end.
C38_TranslationEndsExactlyOnAcyclicChains ==
  [][\A note \in {NoteA, NoteB, NoteC} :
       Delivered(note, NoFault) =>
         /\ Endless(note) <=> EventOf(note, NoFault).outcome = "diverge"
         /\ ~Endless(note) =>
              \A a \in Ancestors(note) : Cardinality(StartedFor(a.Id)) = 1]_vars

\* The step is the delivery of the body, answered 200
Answered200(body) ==
  /\ resp'.op = "inbox" /\ resp'.body = body /\ resp'.status = 200
  /\ \E f \in Faults : InboxHandler(body, f)

\* The identity the actor url stands for published the contact list and the
\* list names the subject
ListedBy(actor, pubkey, contacts) ==
  /\ actor = PubActor(contacts.pubkey, ServiceURL)
  /\ pubkey \in Range(PTagValues(contacts.tags))

\* C39: every actor GetFollowersByPubKey(p) returns follows p.  Step by step:
\* an actor stored for p after a step was stored for p before, or is the
\* federation actor whose Follow of p the step recorded, or stands for an
\* identity whose contact list, observed in the step, names p; and the Undo
\* of a Follow that was acted on leaves the actor out of the followers of p.
C39_ReturnedFollowersFollowTheSubject ==
  [][\A pubkey \in {P1, P2} :
       /\ \A actor \in GetFollowersByPubKey(followers', pubkey) :
            \/ actor \in GetFollowersByPubKey(followers, pubkey)
            \/ \E type \in {"Follow", "Create"} :
                 Answered200(PersonActivity(type, actor, pubkey))
            \/ Answered200(FollowActivity(actor, pubkey))
            \/ \E dbok \in BOOLEAN :
                 /\ GetFollowersByPubKeyFound(K1, dbok)
                 /\ ListedBy(actor, pubkey, K1)
       /\ \A actor \in {Alice, Bob} :
            (/\ Answered200(UndoActivity("Person", actor, pubkey))
             /\ resp'.stage # "undo ignored") =>
              actor \notin GetFollowersByPubKey(followers', pubkey)]_vars

\* C40: a Delete for a note url that has no mapping, because none was stored
\* or because an earlier Delete removed it, is answered 200 when every
\* statement succeeds, and changes no table.
C40_DeleteWithoutMappingIsAnswered200 ==
  [][(/\ resp'.op = "inbox" /\ resp'.body = DeleteActivity(Alice, NoteUrl1)
      /\ InboxHandler(resp'.body, NoFault)
      /\ NoteIDsByUrl(notes, NoteUrl1) = {}) =>
       /\ resp'.status = 200
       /\ UNCHANGED <<keys, followers, notes, cache>>]_vars

=============================================================================
